---- MODULE Spec2Model ----
(***************************************************************************)
(* Model of gomobile-ipfs: the core Node lifecycle (NewNode / serve* /      *)
(* Close, go/bind/core/node.go), the mDNS locker protocol, and the          *)
(* repository configuration patch chain (go/pkg/ipfsmobile/repo.go).        *)
(*                                                                         *)
(* External collaborators (kubo, libp2p, the platform drivers) are not      *)
(* modelled by their code: every call into them is a step whose outcome     *)
(* (success or error) is chosen nondeterministically.                       *)
(***************************************************************************)
EXTENDS Integers, Sequences, FiniteSets, TLC

\* ------------------------------------------------------------------ bounds

\* Number of NewNode calls made one after the other on the same repository.
MaxRuns == 2
\* Largest number of multicast interfaces GetMulticastInterfaces reports.
MaxIfaces == 1
\* Largest number of listeners opened on one Node.
MaxListeners == 2
\* Longest patch sequence handed to ApplyPatchs / ChainIpfsConfigPatch.
MaxPatchs == 3
\* Longest patch sequence of each of two concurrent ApplyPatchs calls.
MaxConcPatchs == 1
\* Longest option list a caller passes, and longest HostConfig.Options.
MaxOptions == 2
\* Number of threads calling loadPlugins, and of calls they make in all.
MaxThreads == 2
MaxCalls == 3
\* Number of threads calling serve* on one Node, and the longest list of API
\* and of gateway addresses in the configuration ServeConfig reads.
MaxServers == 2
MaxApi == 2
MaxGateway == 1
\* Number of threads using one bridge IPFS instance, and of start, stop and
\* restart calls they make in all.
MaxBridgeThreads == 2
MaxBridgeCalls == 3

\* ------------------------------------------------ configuration and patches

\* The part of ipfs_config.Config the program reads or writes:
\* Discovery.MDNS.Enabled and Addresses.API.
ConfigValues ==
  [MDNS : BOOLEAN, API : {<<>>, <<"a">>}]

\* A RepoConfigPatch is a caller-supplied function; the kinds below are the
\* ones the program itself uses (DisableMDNS, EnableMDNS: node.go) plus
\* representative caller patches: one that appends an API address, one that
\* fails without touching the value, one that writes and then fails.
\* "nil" is the nil function value.
PatchKinds == {"nil", "DisableMDNS", "EnableMDNS", "AddA", "AddB", "Fail", "DirtyFail"}

\* Whether running patch p returns an error.
PatchErr(p) == p \in {"Fail", "DirtyFail"}

\* The configuration value after running patch p on c (patches mutate the
\* value through the pointer, also when they return an error).
PatchRun(p, c) ==
  CASE p = "DisableMDNS" -> [c EXCEPT !.MDNS = FALSE]
    [] p = "EnableMDNS"  -> [c EXCEPT !.MDNS = TRUE]
    [] p = "AddA"        -> [c EXCEPT !.API = Append(@, "a")]
    [] p = "AddB"        -> [c EXCEPT !.API = Append(@, "b")]
    [] p = "DirtyFail"   -> [c EXCEPT !.MDNS = ~@]
    [] OTHER             -> c

\* Mutant of ChainStep: a failing patch does not stop the loop.
ChainStep_NoShortCircuit(p, st) ==
  IF p = "nil" THEN st
  ELSE [cfg   |-> PatchRun(p, st.cfg),
        err   |-> st.err \/ PatchErr(p),
        calls |-> Append(st.calls, p),
        done  |-> FALSE]

\* One iteration of the loop of ChainIpfsConfigPatch over entry p.  st is the
\* loop state: the value behind the pointer, the error to return, the log
\* of patches called, and whether the function has returned.
ChainStep(p, st) ==
  IF st.done THEN st
  ELSE IF p = "nil" THEN st
  ELSE [cfg   |-> PatchRun(p, st.cfg),
        err   |-> PatchErr(p),
        calls |-> Append(st.calls, p),
        done  |-> PatchErr(p)]

RECURSIVE ChainLoop(_, _)
ChainLoop(patchs, st) ==
  IF patchs = <<>> THEN st
  ELSE ChainLoop(Tail(patchs), ChainStep(Head(patchs), st))

\* ChainIpfsConfigPatch(patchs...)(cfg): the composed patch applied to c.
ChainIpfsConfigPatch(patchs, c) ==
  ChainLoop(patchs, [cfg |-> c, err |-> FALSE, calls |-> <<>>, done |-> FALSE])

\* Mutant of ApplyPatchs: the configuration is written back whatever the
\* composed patch returned.
ApplyPatchs_AlwaysWrite(disk, patchs, readOK, writeOK) ==
  IF ~readOK
    THEN [disk |-> disk, err |-> "config", mem |-> disk, calls |-> <<>>, sets |-> 0]
  ELSE LET r == ChainIpfsConfigPatch(patchs, disk) IN
    [disk |-> IF writeOK THEN r.cfg ELSE disk,
     err |-> IF r.err THEN "patch" ELSE IF writeOK THEN "none" ELSE "setconfig",
     mem |-> r.cfg, calls |-> r.calls, sets |-> 1]

\* RepoMobile.ApplyPatchs on a repository whose persisted configuration is
\* disk.  readOK / writeOK are the outcomes of Repo.Config and Repo.SetConfig.
\* Result: the persisted configuration afterwards, the error returned
\* ("none" for nil), the in-memory value, the patches called and the number
\* of SetConfig calls.
ApplyPatchs(disk, patchs, readOK, writeOK) ==
  IF ~readOK
    THEN [disk |-> disk, err |-> "config", mem |-> disk, calls |-> <<>>, sets |-> 0]
  ELSE LET r == ChainIpfsConfigPatch(patchs, disk) IN
    IF r.err
      THEN [disk |-> disk, err |-> "patch", mem |-> r.cfg, calls |-> r.calls, sets |-> 0]
    ELSE [disk |-> IF writeOK THEN r.cfg ELSE disk,
          err |-> IF writeOK THEN "none" ELSE "setconfig",
          mem |-> r.cfg, calls |-> r.calls, sets |-> 1]

\* -------------------------------------------------------------------- state

VARIABLES
  isAndroid,      \* runtime.GOOS == "android"
  bleSupported,   \* ble.Supported (build constant of the ble-driver package)
  persisted,      \* the repository's persisted configuration
  plugins,        \* the process-wide plugin loader is cached (plugins != nil)
  pc,             \* position of the caller in NewNode / the Node's lifetime
  run,            \* number of NewNode calls made so far
  config,         \* the NodeConfig of the current call
  result,         \* what NewNode returned: "none" (running), "ok", "err"
  errAt,          \* the step whose failure NewNode returned
  trace,          \* locker, patch, node and mDNS events of the current run
  bleOpt,         \* NewNode local: the proximity transport option or "nil"
  ifaceAddrsErr,  \* net.InterfaceAddrs failed in isNetworkLimited
  networkLimited, \* NewNode local
  ipfscfg,        \* NewNode local: the ipfs_mobile.IpfsConfig
  cfg,            \* NewNode local: the configuration read at line 189
  mdnsLocked,     \* NewNode local
  ifaces,         \* NewNode local: len(ifaces), -1 before the enumeration
  bootstrapErr,   \* the Bootstrap call returned an error
  lockCalls,      \* mdnsLockerDriver.Lock calls of the current run
  unlockCalls,    \* mdnsLockerDriver.Unlock calls of the current run
  held,           \* acquisitions of the locker not yet released (all runs)
  ipfsNode,       \* the underlying node: "none", "live", "closed"
  builtWithMdns,  \* persisted Discovery.MDNS.Enabled when the node was built
  hostBuild,      \* host constructor and option list used to build the host
  mdnsService,    \* "nil", "created", "started", "closed"
  node,           \* the Node returned by NewNode (its fields), or NoNode
  listeners,      \* Node.listeners: one record per registered listener
  patchs,         \* patch sequence of a direct ApplyPatchs call
  applied         \* result of a direct ApplyPatchs call, or NoResult

envVars   == <<isAndroid, bleSupported>>
localVars == <<bleOpt, ifaceAddrsErr, networkLimited, ipfscfg, cfg, mdnsLocked,
               ifaces, bootstrapErr>>
lockVars  == <<lockCalls, unlockCalls, held>>
nodeVars  == <<ipfsNode, builtWithMdns, hostBuild, mdnsService, node, listeners>>
callVars  == <<pc, run, config, result, errAt, trace>>
patchVars == <<patchs, applied>>

\* Two callers of ApplyPatchs running concurrently on one repository.
VARIABLES
  cpc,            \* position of each caller in ApplyPatchs
  cchain,         \* the patchs argument of each caller
  cmem,           \* each caller's cfg, the value Config() returned to it
  cerr,           \* what ApplyPatchs returned to each caller ("pending": running)
  disk0           \* the persisted configuration before the two calls

concVars == <<cpc, cchain, cmem, cerr, disk0>>

\* The option composers called on their own.
VARIABLES
  cin,            \* the arguments and the collaborators' outcomes of the calls
  hres,           \* what a call of the composed host constructor did
  rres,           \* what a call of the composed routing constructor did
  sres,           \* what a call of SimpleHostOption's constructor did
  mres            \* the host constructor ipfsmobile.NewNode hands to the library

composeVars == <<cin, hres, rres, sres, mres>>

\* loadPlugins called from several threads.
VARIABLES
  tpc,            \* position of each thread in loadPlugins
  tpath,          \* the repoPath argument of each thread's call
  tlp,            \* each thread's local lp
  tret,           \* what each thread's last finished call returned
  ncalls,         \* number of loadPlugins calls started so far
  muPlugins,      \* the thread holding muPlugins, 0 when unlocked
  pluginsInst,    \* the global plugins: the cached loader, NoLoader when nil
  newRuns,        \* number of NewPluginLoader calls so far
  initRuns,       \* number of lp.Initialize calls so far
  injectRuns,     \* number of lp.Inject calls so far
  anyFail         \* some NewPluginLoader, Initialize or Inject call failed

plugVars == <<tpc, tpath, tlp, tret, ncalls, muPlugins, pluginsInst,
              newRuns, initRuns, injectRuns, anyFail>>

\* serve*, serving tasks and Close on one constructed Node.
VARIABLES
  vcfg,           \* the configuration Repo.Config() returned to ServeConfig
  vmdns,          \* n.mdnsLocked, and what Close did for it
  vlisteners,     \* n.listeners: the registered listeners, by identity
  vmu,            \* the holder of n.muListeners, 0 when unlocked
  vopened,        \* every listener manet.Listen opened: its call, its Close
                  \* count and the state of its serving task
  vpc,            \* position of each serving thread
  vmode,          \* what the thread called: "single" serve* or "config"
  vitems,         \* the addresses the thread's call has to serve
  vidx,           \* the index in vitems of the address being served
  vml,            \* the thread's local ml
  vsnap,          \* n.listeners as the thread read it for append
  vouts,          \* results of the serve*Multiaddr calls the thread made
  vret,           \* what the thread's call returned
  kpc,            \* position of the thread running Close
  ksnap,          \* n.listeners as the range loop of Close evaluated it
  kidx,           \* index of the range loop of Close
  ktrace,         \* the steps Close has performed, in order
  kret            \* the result of Close

serveVars == <<vcfg, vmdns, vlisteners, vmu, vopened, vpc, vmode,
               vitems, vidx, vml, vsnap, vouts, vret, kpc, ksnap, kidx, ktrace,
               kret>>

\* The Android bridge: one IPFS instance used by several threads.
VARIABLES
  bmon,           \* the thread inside a synchronized method, 0 when none
  bpc,            \* position of each thread in start, stop or restart
  bop,            \* what each thread called last: start, stop, restart
                  \* or newRequest ("none": nothing yet)
  brestart,       \* the thread's start or stop was called by restart
  bexc,           \* how each thread's last call ended: the exception thrown
  bgo,            \* the calls into the Go core made by each thread's call
  bnode,          \* the field node: 0 is null, else the Go node's identity
  brepo,          \* the field repo: "null" or "open"
  bshell,         \* the field shell: 0 is null, else the node it talks to
  gonodes,        \* every node Core.newNode returned: live, and Close calls
  bcalls          \* number of start, stop and restart calls so far

bridgeVars == <<bmon, bpc, bop, brestart, bexc, bgo, bnode, brepo, bshell,
                gonodes, bcalls>>

moreVars == <<serveVars, bridgeVars>>

extVars == <<concVars, composeVars, plugVars, moreVars>>

vars == <<envVars, persisted, plugins, callVars, localVars, lockVars, nodeVars,
          patchVars, extVars>>

\* The concurrent callers of ApplyPatchs.
Procs == {1, 2}

ConcIdle ==
  /\ cpc = [p \in Procs |-> "idle"]
  /\ cchain = [p \in Procs |-> <<>>]
  /\ cmem = [p \in Procs |-> [MDNS |-> FALSE, API |-> <<>>]]
  /\ cerr = [p \in Procs |-> "pending"]
  /\ disk0 = [MDNS |-> FALSE, API |-> <<>>]

\* The state of everything a specification does not exercise.
\* A call that has not been made.
NotCalled == [done |-> FALSE]

ComposeIdle ==
  /\ cin = [done |-> FALSE]
  /\ hres = NotCalled
  /\ rres = NotCalled
  /\ sres = NotCalled
  /\ mres = NotCalled

Threads == 1..MaxThreads

\* The nil *PluginLoader.
NoLoader == [id |-> 0, path |-> <<>>]

\* The value of tret before a thread's first call has returned.
NoReturn == [lp |-> NoLoader, err |-> "pending"]

PlugIdle ==
  /\ tpc = [t \in Threads |-> "idle"]
  /\ tpath = [t \in Threads |-> "none"]
  /\ tlp = [t \in Threads |-> NoLoader]
  /\ tret = [t \in Threads |-> NoReturn]
  /\ ncalls = 0
  /\ muPlugins = 0
  /\ pluginsInst = NoLoader
  /\ newRuns = 0
  /\ initRuns = 0
  /\ injectRuns = 0
  /\ anyFail = FALSE

Servers == 1..MaxServers

\* The identity of the thread running Close, as holder of muListeners.
Closer == MaxServers + 1

\* A call that has not returned.
NoServeReturn == [addr |-> <<>>, err |-> <<"pending">>]

ServeIdle ==
  /\ vcfg = [API |-> <<>>, Gateway |-> <<>>]
  /\ vmdns = [locked |-> FALSE, service |-> "nil", unlocks |-> 0]
  /\ vlisteners = <<>>
  /\ vmu = 0
  /\ vopened = <<>>
  /\ vpc = [c \in Servers |-> "idle"]
  /\ vmode = [c \in Servers |-> "none"]
  /\ vitems = [c \in Servers |-> <<>>]
  /\ vidx = [c \in Servers |-> 0]
  /\ vml = [c \in Servers |-> 0]
  /\ vsnap = [c \in Servers |-> <<>>]
  /\ vouts = [c \in Servers |-> <<>>]
  /\ vret = [c \in Servers |-> NoServeReturn]
  /\ kpc = "idle"
  /\ ksnap = <<>>
  /\ kidx = 0
  /\ ktrace = <<>>
  /\ kret = "pending"

BridgeThreads == 1..MaxBridgeThreads

\* A call that has not finished.
NoException == <<"pending">>

BridgeIdle ==
  /\ bmon = 0
  /\ bpc = [t \in BridgeThreads |-> "idle"]
  /\ bop = [t \in BridgeThreads |-> "none"]
  /\ brestart = [t \in BridgeThreads |-> FALSE]
  /\ bexc = [t \in BridgeThreads |-> NoException]
  /\ bgo = [t \in BridgeThreads |-> <<>>]
  /\ bnode = 0
  /\ brepo = "null"
  /\ bshell = 0
  /\ gonodes = <<>>
  /\ bcalls = 0

MoreIdle ==
  /\ ServeIdle
  /\ BridgeIdle

ExtIdle ==
  /\ ConcIdle
  /\ ComposeIdle
  /\ PlugIdle
  /\ MoreIdle

NoNode == [live |-> FALSE]
NoResult == [err |-> "pending"]
NoIpfsConfig == [HostOption |-> "nil"]
NoHost == [constructor |-> "none"]

\* ------------------------------------------------- NewNode: pure decisions

\* Mutant of isNetworkLimited: the Android platform check is missing.
isNetworkLimited_IgnoresAndroid(ifaceErr, android) == ifaceErr

\* isNetworkLimited(): net.InterfaceAddrs failed, or the platform is Android.
isNetworkLimited(ifaceErr, android) ==
  IF ifaceErr THEN TRUE
  ELSE IF android THEN TRUE
  ELSE FALSE

\* The switch that selects the proximity transport option (bleOpt).
SelectBleOpt(bleDriver, supported) ==
  CASE bleDriver -> "BLETransport"
    [] supported -> "BLETransport"
    [] OTHER     -> "nil"

\* HostConfig.Options built by NewNode.
HostConfigOptions(ble) == <<ble, "DisableRelay", "ForceReachabilityPrivate">>

\* The IpfsConfig built by NewNode for a limited / unlimited network.
BuildIpfsConfig(limited, ble) ==
  IF limited
    THEN [HostOption |-> "SimpleHostOption",
          Options    |-> HostConfigOptions(ble),
          ExtraOpts  |-> [pubsub |-> FALSE, ipnsps |-> FALSE,
                          dht |-> FALSE, dhtclient |-> TRUE]]
  ELSE [HostOption |-> "nil",
        Options    |-> HostConfigOptions(ble),
        ExtraOpts  |-> [pubsub |-> TRUE, ipnsps |-> TRUE]]

\* IpfsConfig.fillDefault: a nil HostOption becomes the library default.
fillDefault(c) ==
  IF c.HostOption = "nil" THEN [c EXCEPT !.HostOption = "DefaultHostOption"] ELSE c

\* Options the wrapped library passes to the host constructor on its own.
LibraryOptions == <<"library">>

\* Mutant of NewHostConfigOption: HostConfig.Options placed first.
NewHostConfigOption_CfgFirst(hopt, callerOptions, cfgOptions) ==
  [constructor |-> hopt, options |-> cfgOptions \o callerOptions]

\* NewHostConfigOption: the base constructor is called with the caller's
\* options followed by HostConfig.Options.
NewHostConfigOption(hopt, callerOptions, cfgOptions) ==
  [constructor |-> hopt, options |-> callerOptions \o cfgOptions]

\* Mutant of ShouldLockMdns: the lock is taken whenever a locker is supplied.
ShouldLockMdns_IgnoresConfig(c, cnf) == cnf.mdnsLockerDriver

\* The condition under which NewNode takes the mDNS lock.
ShouldLockMdns(c, cnf) == c.MDNS /\ cnf.mdnsLockerDriver

\* Mutant of UnlockOnConstructFail: the release on the failure path is missing.
UnlockOnConstructFail_Never(locked) == FALSE

\* Whether NewNode releases the locker when ipfs_mobile.NewNode fails.
UnlockOnConstructFail(locked) == locked

\* Whether NewNode releases the locker when the patch that disables /
\* re-enables mDNS fails: it returns without calling Unlock.
UnlockOnPatchFail(locked) == FALSE

\* Whether NewNode releases the locker when GetMulticastInterfaces or
\* mdnsService.Start fails.
UnlockOnMdnsFail(locked) == locked

\* Mutant of ShouldStartMdns: the service is started whatever was found.
ShouldStartMdns_Always(n) == TRUE

\* Whether mdnsService.Start is called for n multicast interfaces.
ShouldStartMdns(n) == n > 0

\* Mutant of BootstrapFails: the Bootstrap error is returned to the caller.
BootstrapFails_Propagates(bootErr) == bootErr

\* Whether a Bootstrap error makes NewNode return an error: it is only logged.
BootstrapFails(bootErr) == FALSE

\* --------------------------------------------------------------------- Init

Init ==
  /\ isAndroid \in BOOLEAN
  /\ bleSupported \in BOOLEAN
  /\ persisted \in [MDNS : BOOLEAN, API : {<<>>}]
  /\ plugins = FALSE
  /\ pc = "idle"
  /\ run = 0
  /\ config = [mdnsLockerDriver |-> FALSE, bleDriver |-> FALSE]
  /\ result = "none"
  /\ errAt = "none"
  /\ trace = <<>>
  /\ bleOpt = "nil"
  /\ ifaceAddrsErr = FALSE
  /\ networkLimited = FALSE
  /\ ifaces = -1
  /\ ipfscfg = NoIpfsConfig
  /\ cfg = persisted
  /\ mdnsLocked = FALSE
  /\ bootstrapErr = FALSE
  /\ lockCalls = 0
  /\ unlockCalls = 0
  /\ held = 0
  /\ ipfsNode = "none"
  /\ builtWithMdns = FALSE
  /\ hostBuild = NoHost
  /\ mdnsService = "nil"
  /\ node = NoNode
  /\ listeners = <<>>
  /\ patchs = <<>>
  /\ applied = NoResult
  /\ ExtIdle

\* ------------------------------------------------------------ NewNode steps

\* NewNode returns (nil, err) for the failure of step `stage`; with `unlock`
\* it calls mdnsLockerDriver.Unlock() first.
ReturnError(stage, unlock) ==
  /\ pc' = "failed"
  /\ result' = "err"
  /\ errAt' = stage
  /\ IF unlock
       THEN /\ unlockCalls' = unlockCalls + 1
            /\ held' = held - 1
            /\ trace' = Append(trace, "Unlock")
       ELSE UNCHANGED <<unlockCalls, held, trace>>

\* A caller invokes NewNode(r, config): the first call, or a new call after
\* the previous one failed or its Node was closed.
NewNodeCall ==
  /\ pc \in {"idle", "failed", "closed"}
  /\ run < MaxRuns
  /\ \E locker \in BOOLEAN, ble \in BOOLEAN :
       config' = [mdnsLockerDriver |-> locker, bleDriver |-> ble]
  /\ run' = run + 1
  /\ pc' = "plugins"
  /\ result' = "none"
  /\ errAt' = "none"
  /\ trace' = <<>>
  /\ bleOpt' = "nil"
  /\ ifaceAddrsErr' = FALSE
  /\ networkLimited' = FALSE
  /\ ifaces' = -1
  /\ ipfscfg' = NoIpfsConfig
  /\ cfg' = persisted
  /\ mdnsLocked' = FALSE
  /\ bootstrapErr' = FALSE
  /\ lockCalls' = 0
  /\ unlockCalls' = 0
  /\ ipfsNode' = "none"
  /\ builtWithMdns' = FALSE
  /\ hostBuild' = NoHost
  /\ mdnsService' = "nil"
  /\ node' = NoNode
  /\ listeners' = <<>>
  /\ UNCHANGED <<envVars, persisted, plugins, held, patchVars, extVars>>

\* loadPlugins(r.mr.Path()): returns the cached loader, or builds one; a
\* failure is returned by NewNode and nothing is cached.
LoadPluginsStep ==
  /\ pc = "plugins"
  /\ IF plugins
       THEN /\ pc' = "ble"
            /\ UNCHANGED <<plugins, result, errAt, unlockCalls, held, trace>>
       ELSE \E ok \in BOOLEAN :
              IF ok
                THEN /\ plugins' = TRUE
                     /\ pc' = "ble"
                     /\ UNCHANGED <<result, errAt, unlockCalls, held, trace>>
                ELSE /\ ReturnError("plugins", FALSE)
                     /\ UNCHANGED plugins
  /\ UNCHANGED <<envVars, persisted, run, config, localVars, lockCalls, nodeVars, patchVars, extVars>>

\* The switch on config.bleDriver / ble.Supported.
SelectBle ==
  /\ pc = "ble"
  /\ bleOpt' = SelectBleOpt(config.bleDriver, bleSupported)
  /\ pc' = "detect"
  /\ UNCHANGED <<envVars, persisted, plugins, run, config, result, errAt, trace,
                 ifaceAddrsErr, networkLimited, ipfscfg, cfg, mdnsLocked, ifaces,
                 bootstrapErr, lockVars, nodeVars, patchVars, extVars>>

\* networkLimited := isNetworkLimited(), then the IpfsConfig is built.
DetectNetwork ==
  /\ pc = "detect"
  /\ \E ifaceErr \in BOOLEAN :
       /\ ifaceAddrsErr' = ifaceErr
       /\ networkLimited' = isNetworkLimited(ifaceErr, isAndroid)
       /\ ipfscfg' = BuildIpfsConfig(networkLimited', bleOpt)
  /\ pc' = "readcfg"
  /\ UNCHANGED <<envVars, persisted, plugins, run, config, result, errAt, trace,
                 bleOpt, cfg, mdnsLocked, ifaces, bootstrapErr, lockVars, nodeVars,
                 patchVars, extVars>>

\* cfg, err := r.mr.Config(); a failure panics.
ReadConfig ==
  /\ pc = "readcfg"
  /\ \E ok \in BOOLEAN :
       IF ok
         THEN /\ cfg' = persisted
              /\ pc' = "lock"
              /\ UNCHANGED <<result, errAt>>
         ELSE /\ pc' = "panic"
              /\ result' = "panic"
              /\ errAt' = "config"
              /\ UNCHANGED cfg
  /\ UNCHANGED <<envVars, persisted, plugins, run, config, trace, bleOpt,
                 ifaceAddrsErr, networkLimited, ipfscfg, mdnsLocked, ifaces,
                 bootstrapErr, lockVars, nodeVars, patchVars, extVars>>

\* Mutant of LockMdns: the lock is taken but the patch that disables mDNS
\* before the node is built is skipped.
LockMdns_SkipDisable ==
  /\ pc = "lock"
  /\ IF ShouldLockMdns(cfg, config)
       THEN /\ lockCalls' = lockCalls + 1
            /\ held' = held + 1
            /\ mdnsLocked' = TRUE
            /\ trace' = Append(trace, "Lock")
            /\ pc' = "construct"
       ELSE /\ pc' = "construct"
            /\ UNCHANGED <<lockCalls, held, mdnsLocked, trace>>
  /\ UNCHANGED <<envVars, persisted, plugins, run, config, result, errAt, bleOpt,
                 ifaceAddrsErr, networkLimited, ipfscfg, cfg, ifaces, bootstrapErr,
                 unlockCalls, nodeVars, patchVars, extVars>>

\* if cfg.Discovery.MDNS.Enabled && config.mdnsLockerDriver != nil { Lock() ...
LockMdns ==
  /\ pc = "lock"
  /\ IF ShouldLockMdns(cfg, config)
       THEN /\ lockCalls' = lockCalls + 1
            /\ held' = held + 1
            /\ mdnsLocked' = TRUE
            /\ trace' = Append(trace, "Lock")
            /\ pc' = "disable"
       ELSE /\ pc' = "construct"
            /\ UNCHANGED <<lockCalls, held, mdnsLocked, trace>>
  /\ UNCHANGED <<envVars, persisted, plugins, run, config, result, errAt, bleOpt,
                 ifaceAddrsErr, networkLimited, ipfscfg, cfg, ifaces, bootstrapErr,
                 unlockCalls, nodeVars, patchVars, extVars>>

\* r.mr.ApplyPatchs(disable mDNS); an error is returned by NewNode.
DisableMdns ==
  /\ pc = "disable"
  /\ \E readOK \in BOOLEAN, writeOK \in BOOLEAN :
       LET r == ApplyPatchs(persisted, <<"DisableMDNS">>, readOK, writeOK) IN
       /\ persisted' = r.disk
       /\ IF r.err = "none"
            THEN /\ pc' = "construct"
                 /\ trace' = Append(trace, "PatchDisable")
                 /\ UNCHANGED <<result, errAt, unlockCalls, held>>
            ELSE ReturnError("disable", UnlockOnPatchFail(mdnsLocked))
  /\ UNCHANGED <<envVars, plugins, run, config, localVars, lockCalls, nodeVars, patchVars, extVars>>

\* mnode, err := ipfs_mobile.NewNode(ctx, ipfscfg): fillDefault, then the
\* wrapped library builds the node with the composed host constructor.
ConstructNode ==
  /\ pc = "construct"
  /\ \E ok \in BOOLEAN :
       IF ok
         THEN /\ ipfsNode' = "live"
              /\ builtWithMdns' = persisted.MDNS
              /\ hostBuild' = NewHostConfigOption(fillDefault(ipfscfg).HostOption,
                                                  LibraryOptions, ipfscfg.Options)
              /\ ipfscfg' = fillDefault(ipfscfg)
              /\ trace' = Append(trace, "Construct")
              /\ pc' = IF mdnsLocked THEN "enable" ELSE "bootstrap"
              /\ UNCHANGED <<result, errAt, unlockCalls, held>>
         ELSE /\ ReturnError("construct", UnlockOnConstructFail(mdnsLocked))
              /\ UNCHANGED <<ipfsNode, builtWithMdns, hostBuild, ipfscfg>>
  /\ UNCHANGED <<envVars, persisted, plugins, run, config, bleOpt, ifaceAddrsErr,
                 networkLimited, cfg, mdnsLocked, ifaces, bootstrapErr, lockCalls,
                 mdnsService, node, listeners, patchVars, extVars>>

\* r.mr.ApplyPatchs(enable mDNS), then the discovery handler and the mDNS
\* service are created.
EnableMdns ==
  /\ pc = "enable"
  /\ \E readOK \in BOOLEAN, writeOK \in BOOLEAN :
       LET r == ApplyPatchs(persisted, <<"EnableMDNS">>, readOK, writeOK) IN
       /\ persisted' = r.disk
       /\ IF r.err = "none"
            THEN /\ mdnsService' = "created"
                 /\ trace' = Append(trace, "PatchEnable")
                 /\ pc' = "ifaces"
                 /\ UNCHANGED <<result, errAt, unlockCalls, held>>
            ELSE /\ ReturnError("enable", UnlockOnPatchFail(mdnsLocked))
                 /\ UNCHANGED mdnsService
  /\ UNCHANGED <<envVars, plugins, run, config, localVars, lockCalls, ipfsNode,
                 builtWithMdns, hostBuild, node, listeners, patchVars, extVars>>

\* ifaces, err := ipfsutil.GetMulticastInterfaces(); with interfaces the
\* service is started next, with none the start is skipped.
GetMulticastInterfaces ==
  /\ pc = "ifaces"
  /\ \/ /\ ReturnError("ifaces", UnlockOnMdnsFail(mdnsLocked))
        /\ UNCHANGED ifaces
     \/ /\ \E n \in 0..MaxIfaces :
             /\ ifaces' = n
             /\ pc' = IF ShouldStartMdns(n) THEN "start" ELSE "bootstrap"
        /\ UNCHANGED <<result, errAt, unlockCalls, held, trace>>
  /\ UNCHANGED <<envVars, persisted, plugins, run, config, bleOpt, ifaceAddrsErr,
                 networkLimited, ipfscfg, cfg, mdnsLocked, bootstrapErr, lockCalls,
                 nodeVars, patchVars, extVars>>

\* mdnsService.Start()
StartMdns ==
  /\ pc = "start"
  /\ \E ok \in BOOLEAN :
       IF ok
         THEN /\ mdnsService' = "started"
              /\ trace' = Append(trace, "MdnsStart")
              /\ pc' = "bootstrap"
              /\ UNCHANGED <<result, errAt, unlockCalls, held>>
         ELSE /\ ReturnError("start", UnlockOnMdnsFail(mdnsLocked))
              /\ UNCHANGED mdnsService
  /\ UNCHANGED <<envVars, persisted, plugins, run, config, localVars, lockCalls,
                 ipfsNode, builtWithMdns, hostBuild, node, listeners, patchVars, extVars>>

\* mnode.IpfsNode.Bootstrap(...), whose error is logged, then return &Node{...}.
Bootstrap ==
  /\ pc = "bootstrap"
  /\ \E bootErr \in BOOLEAN :
       /\ bootstrapErr' = bootErr
       /\ IF BootstrapFails(bootErr)
            THEN /\ ReturnError("bootstrap", FALSE)
                 /\ UNCHANGED node
            ELSE /\ node' = [live |-> TRUE,
                             mdnsLocker |-> config.mdnsLockerDriver,
                             mdnsLocked |-> mdnsLocked,
                             mdnsService |-> mdnsService # "nil"]
                 /\ pc' = "serving"
                 /\ result' = "ok"
                 /\ UNCHANGED <<errAt, unlockCalls, held, trace>>
  /\ UNCHANGED <<envVars, persisted, plugins, run, config, bleOpt, ifaceAddrsErr,
                 networkLimited, ipfscfg, cfg, mdnsLocked, ifaces, lockCalls,
                 ipfsNode, builtWithMdns, hostBuild, mdnsService, listeners,
                 patchVars, extVars>>

\* ------------------------------------------------------------ serve / Close

\* ServeAPIMultiaddr / ServeGatewayMultiaddr: parse the address, listen, and
\* on success append the listener to n.listeners.
Serve ==
  /\ pc = "serving"
  /\ Len(listeners) < MaxListeners
  /\ \E kind \in {"api", "gateway"}, outcome \in {"parse", "bind", "ok"} :
       listeners' = IF outcome = "ok"
                      THEN Append(listeners, [kind |-> kind, closes |-> 0])
                      ELSE listeners
  /\ UNCHANGED <<envVars, persisted, plugins, callVars, localVars, lockVars,
                 ipfsNode, builtWithMdns, hostBuild, mdnsService, node, patchVars, extVars>>

\* Mutant of CloseUnlocks: the mDNS branch of Close is taken always.
CloseUnlocks_Always(n) == TRUE

\* The guard of the mDNS branch of Close.
CloseUnlocks(n) == n.mdnsLocked

\* Mutant of MdnsLockedAfterClose: Close leaves n.mdnsLocked as it was.
MdnsLockedAfterClose_Kept(locked) == locked

\* n.mdnsLocked = false, the last statement of the mDNS branch of Close.
MdnsLockedAfterClose(locked) == FALSE

\* The body of Node.Close: close every listener, then (if mdnsLocked) close
\* the mDNS service and release the locker, then close the underlying node.
CloseBody ==
  /\ listeners' = [i \in 1..Len(listeners) |->
                     [listeners[i] EXCEPT !.closes = @ + 1]]
  /\ IF CloseUnlocks(node)
       THEN /\ mdnsService' = "closed"
            /\ unlockCalls' = unlockCalls + 1
            /\ held' = held - 1
            /\ node' = [node EXCEPT
                          !.mdnsLocked = MdnsLockedAfterClose(@)]
            /\ trace' = trace \o <<"MdnsClose", "Unlock", "NodeClose">>
       ELSE /\ trace' = Append(trace, "NodeClose")
            /\ UNCHANGED <<mdnsService, unlockCalls, held, node>>
  /\ ipfsNode' = "closed"
  /\ UNCHANGED <<envVars, persisted, plugins, run, config, result, errAt,
                 localVars, lockCalls, builtWithMdns, hostBuild, patchVars, extVars>>

\* The first call of Close on the Node NewNode returned.
Close ==
  /\ pc = "serving"
  /\ pc' = "closed"
  /\ CloseBody

\* A second call of Close on the same Node.
CloseAgain ==
  /\ pc = "closed"
  /\ pc' = "closedAgain"
  /\ CloseBody

Next ==
  \/ NewNodeCall
  \/ LoadPluginsStep
  \/ SelectBle
  \/ DetectNetwork
  \/ ReadConfig
  \/ LockMdns
  \/ DisableMdns
  \/ ConstructNode
  \/ EnableMdns
  \/ GetMulticastInterfaces
  \/ StartMdns
  \/ Bootstrap
  \/ Serve
  \/ Close
  \/ CloseAgain

Spec == Init /\ [][Next]_vars

\* ----------------------------------------- direct calls of ApplyPatchs

SeqsUpTo(S, n) == UNION {[1..k -> S] : k \in 0..n}

\* A repository with any persisted configuration and a caller about to call
\* ApplyPatchs with any patch sequence.
InitPatch ==
  /\ isAndroid = FALSE
  /\ bleSupported = FALSE
  /\ persisted \in ConfigValues
  /\ plugins = FALSE
  /\ pc = "idle"
  /\ run = 0
  /\ config = [mdnsLockerDriver |-> FALSE, bleDriver |-> FALSE]
  /\ result = "none"
  /\ errAt = "none"
  /\ trace = <<>>
  /\ bleOpt = "nil"
  /\ ifaceAddrsErr = FALSE
  /\ networkLimited = FALSE
  /\ ifaces = -1
  /\ ipfscfg = NoIpfsConfig
  /\ cfg = persisted
  /\ mdnsLocked = FALSE
  /\ bootstrapErr = FALSE
  /\ lockCalls = 0
  /\ unlockCalls = 0
  /\ held = 0
  /\ ipfsNode = "none"
  /\ builtWithMdns = FALSE
  /\ hostBuild = NoHost
  /\ mdnsService = "nil"
  /\ node = NoNode
  /\ listeners = <<>>
  /\ patchs \in SeqsUpTo(PatchKinds, MaxPatchs)
  /\ applied = NoResult
  /\ ExtIdle

\* mr.ApplyPatchs(patchs...): the call and its return value.  `before` keeps
\* the persisted configuration the call started from.
ApplyPatchsCall ==
  /\ applied = NoResult
  /\ \E readOK \in BOOLEAN, writeOK \in BOOLEAN :
       LET r == ApplyPatchs(persisted, patchs, readOK, writeOK) IN
       /\ applied' = [err |-> r.err, mem |-> r.mem, calls |-> r.calls,
                      sets |-> r.sets, before |-> persisted, readOK |-> readOK]
       /\ persisted' = r.disk
  /\ UNCHANGED <<envVars, plugins, callVars, localVars, lockVars, nodeVars, patchs, extVars>>

NextPatch == ApplyPatchsCall

SpecPatch == InitPatch /\ [][NextPatch]_vars

\* ------------------------------------- concurrent calls of ApplyPatchs

\* No NewNode call and no direct ApplyPatchs call is in progress.
MainIdle ==
  /\ isAndroid = FALSE
  /\ bleSupported = FALSE
  /\ pc = "idle"
  /\ run = 0
  /\ config = [mdnsLockerDriver |-> FALSE, bleDriver |-> FALSE]
  /\ result = "none"
  /\ errAt = "none"
  /\ trace = <<>>
  /\ bleOpt = "nil"
  /\ ifaceAddrsErr = FALSE
  /\ networkLimited = FALSE
  /\ ifaces = -1
  /\ ipfscfg = NoIpfsConfig
  /\ cfg = persisted
  /\ mdnsLocked = FALSE
  /\ bootstrapErr = FALSE
  /\ lockCalls = 0
  /\ unlockCalls = 0
  /\ held = 0
  /\ ipfsNode = "none"
  /\ builtWithMdns = FALSE
  /\ hostBuild = NoHost
  /\ mdnsService = "nil"
  /\ node = NoNode
  /\ listeners = <<>>
  /\ patchs = <<>>
  /\ applied = NoResult

mainVars == <<envVars, callVars, localVars, lockVars, nodeVars, patchVars>>

\* Two callers, each about to call ApplyPatchs with its own patch sequence on
\* the same repository.
InitConc ==
  /\ persisted \in [MDNS : BOOLEAN, API : {<<>>}]
  /\ plugins = FALSE
  /\ MainIdle
  /\ cpc = [p \in Procs |-> "read"]
  /\ cchain \in [Procs -> SeqsUpTo(PatchKinds, MaxConcPatchs)]
  /\ cmem = [p \in Procs |-> persisted]
  /\ cerr = [p \in Procs |-> "pending"]
  /\ disk0 = persisted
  /\ ComposeIdle
  /\ PlugIdle
  /\ MoreIdle

\* cfg, err := mr.Config(): the caller gets the configuration as persisted at
\* this moment; ApplyPatchs takes no lock around the three steps.
ConcRead(p) ==
  /\ cpc[p] = "read"
  /\ \E ok \in BOOLEAN :
       IF ok
         THEN /\ cmem' = [cmem EXCEPT ![p] = persisted]
              /\ cpc' = [cpc EXCEPT ![p] = "patch"]
              /\ UNCHANGED cerr
         ELSE /\ cerr' = [cerr EXCEPT ![p] = "config"]
              /\ cpc' = [cpc EXCEPT ![p] = "done"]
              /\ UNCHANGED cmem
  /\ UNCHANGED <<mainVars, persisted, plugins, cchain, disk0, composeVars, plugVars, moreVars>>

\* ChainIpfsConfigPatch(patchs...)(cfg) on the caller's value.
ConcPatch(p) ==
  /\ cpc[p] = "patch"
  /\ LET r == ChainIpfsConfigPatch(cchain[p], cmem[p]) IN
       /\ cmem' = [cmem EXCEPT ![p] = r.cfg]
       /\ IF r.err
            THEN /\ cerr' = [cerr EXCEPT ![p] = "patch"]
                 /\ cpc' = [cpc EXCEPT ![p] = "done"]
            ELSE /\ cpc' = [cpc EXCEPT ![p] = "write"]
                 /\ UNCHANGED cerr
  /\ UNCHANGED <<mainVars, persisted, plugins, cchain, disk0, composeVars, plugVars, moreVars>>

\* return mr.SetConfig(cfg)
ConcWrite(p) ==
  /\ cpc[p] = "write"
  /\ \E ok \in BOOLEAN :
       IF ok
         THEN /\ persisted' = cmem[p]
              /\ cerr' = [cerr EXCEPT ![p] = "none"]
         ELSE /\ cerr' = [cerr EXCEPT ![p] = "setconfig"]
              /\ UNCHANGED persisted
  /\ cpc' = [cpc EXCEPT ![p] = "done"]
  /\ UNCHANGED <<mainVars, plugins, cchain, cmem, disk0, composeVars, plugVars, moreVars>>

NextConc == \E p \in Procs : ConcRead(p) \/ ConcPatch(p) \/ ConcWrite(p)

SpecConc == InitConc /\ [][NextConc]_vars

\* ------------------------------------------- host and routing composers

\* Errors are chains of messages, outermost first; nil is the empty chain.
NilError == <<>>

\* The cause wrapped under a message: fmt.Errorf("<msg>: %w", err).
Errorf(msg, err) == <<msg>> \o err

\* Mutant of CallsHook: the hook is invoked without the nil check.
CallsHook_Always(configFunc) == TRUE

\* if cfg.ConfigFunc != nil / if rc != nil && rc.ConfigFunc != nil
CallsHook(configFunc) == configFunc # "nil"

\* Mutant of HostHookError: the hook's error is returned as it is.
HostHookError_Unwrapped(err) == err

\* The error of the composed host constructor when the hook failed.
HostHookError(err) == Errorf("unable to apply host config", err)

\* The function NewHostConfigOption(hopt, hc) returns, called with options.
\* hoptOK says whether the base constructor hopt succeeds.  The result
\* records every call made: baseCalls (the constructor and its argument
\* list), hookCalls (the host passed to hc.ConfigFunc), the returned host
\* and error, and whether a host was built and is still open on return.
HostConfigOptionCall(hopt, hc, options, hoptOK) ==
  LET call == NewHostConfigOption(hopt, options, hc.Options) IN
    IF ~hoptOK
      THEN [done |-> TRUE, baseCalls |-> <<call>>, hookCalls |-> <<>>,
            host |-> NoHost, err |-> <<"hopt">>, hostOpen |-> FALSE]
    ELSE IF CallsHook(hc.ConfigFunc)
      THEN IF hc.ConfigFunc = "err"
             THEN [done |-> TRUE, baseCalls |-> <<call>>, hookCalls |-> <<call>>,
                   host |-> NoHost, err |-> HostHookError(<<"ConfigFunc">>),
                   hostOpen |-> TRUE]
             ELSE [done |-> TRUE, baseCalls |-> <<call>>, hookCalls |-> <<call>>,
                   host |-> call, err |-> NilError, hostOpen |-> TRUE]
    ELSE [done |-> TRUE, baseCalls |-> <<call>>, hookCalls |-> <<>>,
          host |-> call, err |-> NilError, hostOpen |-> TRUE]

NoRouting == "nil"

\* Mutant of RoutingHookError: the hook's error is returned as it is.
RoutingHookError_Unwrapped(err) == err

\* The error of the composed routing constructor when the hook failed.
RoutingHookError(err) == Errorf("failed to config routing", err)

\* The function NewRoutingConfigOption(ro, rc) returns, called with a host.
\* roOK says whether the base routing constructor ro succeeds.
RoutingConfigOptionCall(rc, host, roOK) ==
  LET routing == [on |-> host] IN
    IF ~roOK
      THEN [done |-> TRUE, baseCalls |-> <<host>>, hookCalls |-> <<>>,
            routing |-> NoRouting, err |-> <<"ro">>]
    ELSE IF CallsHook(rc.ConfigFunc)
      THEN IF rc.ConfigFunc = "err"
             THEN [done |-> TRUE, baseCalls |-> <<host>>,
                   hookCalls |-> << <<host, routing>> >>,
                   routing |-> NoRouting,
                   err |-> RoutingHookError(<<"ConfigFunc">>)]
             ELSE [done |-> TRUE, baseCalls |-> <<host>>,
                   hookCalls |-> << <<host, routing>> >>,
                   routing |-> routing, err |-> NilError]
    ELSE [done |-> TRUE, baseCalls |-> <<host>>, hookCalls |-> <<>>,
          routing |-> routing, err |-> NilError]

\* baseOpts of SimpleHostOption's constructor.
SimpleBaseOpts ==
  <<"Identity", "Peerstore", "NoListenAddrs", "DisableRelay",
    "ForceReachabilityPrivate", "Security(tls)", "Security(noise)">>

\* Mutant of SimpleHostOption: the private key is not checked.
SimpleHostOption_NoKeyCheck(hasKey, options, newOK) ==
  LET allOpts == SimpleBaseOpts \o options IN
    [done |-> TRUE, newCalls |-> <<allOpts>>,
     host |-> IF newOK THEN [constructor |-> "SimpleHostOption",
                              options |-> allOpts]
              ELSE NoHost,
     err |-> IF newOK THEN NilError ELSE <<"p2p.New">>]

\* The constructor SimpleHostOption() returns, called with options on a
\* peer store that has (hasKey) or has not the private key of the identity;
\* newOK says whether p2p.New succeeds.
SimpleHostOption(hasKey, options, newOK) ==
  IF ~hasKey
    THEN [done |-> TRUE, newCalls |-> <<>>, host |-> NoHost,
          err |-> <<"missing private key for node ID">>]
  ELSE LET allOpts == SimpleBaseOpts \o options IN
    [done |-> TRUE, newCalls |-> <<allOpts>>,
     host |-> IF newOK THEN [constructor |-> "SimpleHostOption",
                              options |-> allOpts]
              ELSE NoHost,
     err |-> IF newOK THEN NilError ELSE <<"p2p.New">>]

\* &HostConfig{}: no extra option and no hook.
EmptyHostConfig == [Options |-> <<>>, ConfigFunc |-> "nil"]

\* The host constructor ipfsmobile.NewNode builds for an IpfsConfig:
\* fillDefault, then the nil check of cfg.HostOption, then NewHostConfigOption.
MobileHostOption(c) ==
  LET d == fillDefault(c)
      hc == IF c.HostConfigNil THEN EmptyHostConfig ELSE c.HostConfig
  IN [HostOption |-> IF d.HostOption = "nil" THEN "SimpleHostOption"
                     ELSE d.HostOption,
      HostConfig |-> hc]

\* The first n of the options a caller passes.
CallerOptions(n) == [i \in 1..n |-> <<"c1", "c2", "c3">>[i]]

Hooks == {"nil", "ok", "err"}

InitCompose ==
  /\ persisted = [MDNS |-> FALSE, API |-> <<>>]
  /\ plugins = FALSE
  /\ MainIdle
  /\ ConcIdle
  /\ PlugIdle
  /\ MoreIdle
  /\ cin \in [done           : {TRUE},
              options        : {CallerOptions(n) : n \in 0..MaxOptions},
              HostOption     : {"nil", "SimpleHostOption"},
              HostConfigNil  : BOOLEAN,
              Options        : SeqsUpTo({"x1", "x2"}, MaxOptions),
              ConfigFunc     : Hooks,
              RoutingFunc    : Hooks,
              hoptOK         : BOOLEAN,
              roOK           : BOOLEAN,
              hasKey         : BOOLEAN]
  /\ hres = NotCalled
  /\ rres = NotCalled
  /\ sres = NotCalled
  /\ mres = NotCalled

\* A call of NewHostConfigOption(hopt, cfg)(id, ps, options...).
HostOptionCall ==
  /\ cin.done /\ ~hres.done
  /\ hres' = HostConfigOptionCall("hopt",
               [Options |-> cin.Options, ConfigFunc |-> cin.ConfigFunc],
               cin.options, cin.hoptOK)
  /\ UNCHANGED <<mainVars, persisted, plugins, concVars, plugVars, moreVars, cin, rres, sres, mres>>

\* A call of NewRoutingConfigOption(ro, rc)(args).
RoutingOptionCall ==
  /\ cin.done /\ ~rres.done
  /\ rres' = RoutingConfigOptionCall([ConfigFunc |-> cin.RoutingFunc],
                                     "host", cin.roOK)
  /\ UNCHANGED <<mainVars, persisted, plugins, concVars, plugVars, moreVars, cin, hres, sres, mres>>

\* A call of SimpleHostOption()(id, ps, options...).
SimpleHostOptionCall ==
  /\ cin.done /\ ~sres.done
  /\ sres' = SimpleHostOption(cin.hasKey, cin.options, cin.hoptOK)
  /\ UNCHANGED <<mainVars, persisted, plugins, concVars, plugVars, moreVars, cin, hres, rres, mres>>

\* ipfsmobile.NewNode choosing the host constructor of the BuildCfg, and the
\* wrapped library calling it with its own options.
MobileNewNodeHost ==
  /\ cin.done /\ ~mres.done
  /\ LET m == MobileHostOption(
                [HostOption |-> cin.HostOption,
                 HostConfigNil |-> cin.HostConfigNil,
                 HostConfig |-> [Options |-> cin.Options,
                                 ConfigFunc |-> cin.ConfigFunc]])
     IN mres' = HostConfigOptionCall(m.HostOption, m.HostConfig,
                                     LibraryOptions, cin.hoptOK)
  /\ UNCHANGED <<mainVars, persisted, plugins, concVars, plugVars, moreVars, cin, hres, rres, sres>>

NextCompose ==
  \/ HostOptionCall
  \/ RoutingOptionCall
  \/ SimpleHostOptionCall
  \/ MobileNewNodeHost

SpecCompose == InitCompose /\ [][NextCompose]_vars

\* ------------------------------------------- loadPlugins, several threads

RepoPaths == {"repoA", "repoB"}

\* filepath.Join(repoPath, "plugins")
PluginPath(repoPath) == <<repoPath, "plugins">>

\* Mutant of CanLockPlugins: muPlugins excludes nobody.
CanLockPlugins_Always(mu) == TRUE

\* muPlugins.Lock() returns only while no thread holds the mutex.
CanLockPlugins(mu) == mu = 0

\* Mutant of CacheHit: the cached loader is reused for its own path only.
CacheHit_SamePath(inst, repoPath) ==
  inst # NoLoader /\ inst.path = PluginPath(repoPath)

\* if plugins != nil
CacheHit(inst, repoPath) == inst # NoLoader

InitPlug ==
  /\ persisted = [MDNS |-> FALSE, API |-> <<>>]
  /\ plugins = FALSE
  /\ MainIdle
  /\ ConcIdle
  /\ ComposeIdle
  /\ PlugIdle
  /\ MoreIdle

\* A thread calls loadPlugins(repoPath).
PlugCall(t) ==
  /\ tpc[t] \in {"idle", "done"}
  /\ ncalls < MaxCalls
  /\ \E path \in RepoPaths : tpath' = [tpath EXCEPT ![t] = path]
  /\ ncalls' = ncalls + 1
  /\ tlp' = [tlp EXCEPT ![t] = NoLoader]
  /\ tpc' = [tpc EXCEPT ![t] = "lock"]
  /\ UNCHANGED <<mainVars, persisted, plugins, concVars, composeVars, moreVars, tret,
                 muPlugins, pluginsInst, newRuns, initRuns, injectRuns, anyFail>>

\* muPlugins.Lock()
PlugLock(t) ==
  /\ tpc[t] = "lock"
  /\ CanLockPlugins(muPlugins)
  /\ muPlugins' = t
  /\ tpc' = [tpc EXCEPT ![t] = "check"]
  /\ UNCHANGED <<mainVars, persisted, plugins, concVars, composeVars, moreVars, tpath,
                 tlp, tret, ncalls, pluginsInst, newRuns, initRuns, injectRuns,
                 anyFail>>

\* Mutant of PlugReturn: the mutex stays locked on return.
PlugReturn_KeepsLock(t, lp, err) ==
  /\ tret' = [tret EXCEPT ![t] = [lp |-> lp, err |-> err]]
  /\ tpc' = [tpc EXCEPT ![t] = "done"]
  /\ muPlugins' = muPlugins

\* return from loadPlugins; the deferred muPlugins.Unlock() runs.
PlugReturn(t, lp, err) ==
  /\ tret' = [tret EXCEPT ![t] = [lp |-> lp, err |-> err]]
  /\ tpc' = [tpc EXCEPT ![t] = "done"]
  /\ muPlugins' = 0

\* if plugins != nil { return plugins, nil }
PlugCheck(t) ==
  /\ tpc[t] = "check"
  /\ IF CacheHit(pluginsInst, tpath[t])
       THEN PlugReturn(t, pluginsInst, "nil")
       ELSE /\ tpc' = [tpc EXCEPT ![t] = "new"]
            /\ UNCHANGED <<tret, muPlugins>>
  /\ UNCHANGED <<mainVars, persisted, plugins, concVars, composeVars, moreVars, tpath,
                 tlp, ncalls, pluginsInst, newRuns, initRuns, injectRuns,
                 anyFail>>

\* lp, err := ipfs_loader.NewPluginLoader(pluginpath)
PlugNew(t) ==
  /\ tpc[t] = "new"
  /\ newRuns' = newRuns + 1
  /\ \E ok \in BOOLEAN :
       IF ok
         THEN /\ tlp' = [tlp EXCEPT ![t] = [id |-> newRuns + 1,
                                            path |-> PluginPath(tpath[t])]]
              /\ tpc' = [tpc EXCEPT ![t] = "init"]
              /\ UNCHANGED <<tret, muPlugins, anyFail>>
         ELSE /\ PlugReturn(t, NoLoader, "NewPluginLoader")
              /\ anyFail' = TRUE
              /\ UNCHANGED tlp
  /\ UNCHANGED <<mainVars, persisted, plugins, concVars, composeVars, moreVars, tpath,
                 ncalls, pluginsInst, initRuns, injectRuns>>

\* err = lp.Initialize()
PlugInitialize(t) ==
  /\ tpc[t] = "init"
  /\ initRuns' = initRuns + 1
  /\ \E ok \in BOOLEAN :
       IF ok
         THEN /\ tpc' = [tpc EXCEPT ![t] = "inject"]
              /\ UNCHANGED <<tret, muPlugins, anyFail>>
         ELSE /\ PlugReturn(t, NoLoader, "Initialize")
              /\ anyFail' = TRUE
  /\ UNCHANGED <<mainVars, persisted, plugins, concVars, composeVars, moreVars, tpath,
                 tlp, ncalls, pluginsInst, newRuns, injectRuns>>

\* err = lp.Inject(); plugins = lp; return lp, nil
PlugInject(t) ==
  /\ tpc[t] = "inject"
  /\ injectRuns' = injectRuns + 1
  /\ \E ok \in BOOLEAN :
       IF ok
         THEN /\ pluginsInst' = tlp[t]
              /\ plugins' = TRUE
              /\ PlugReturn(t, tlp[t], "nil")
              /\ UNCHANGED anyFail
         ELSE /\ PlugReturn(t, NoLoader, "Inject")
              /\ anyFail' = TRUE
              /\ UNCHANGED <<pluginsInst, plugins>>
  /\ UNCHANGED <<mainVars, persisted, concVars, composeVars, moreVars, tpath, tlp,
                 ncalls, newRuns, initRuns>>

NextPlug ==
  \E t \in Threads :
    \/ PlugCall(t)
    \/ PlugLock(t)
    \/ PlugCheck(t)
    \/ PlugNew(t)
    \/ PlugInitialize(t)
    \/ PlugInject(t)

SpecPlug == InitPlug /\ [][NextPlug]_vars

\* ------------------------------------------ serve*, serving tasks, Close

outsideServe == <<mainVars, persisted, plugins, concVars, composeVars, plugVars,
                  bridgeVars>>

\* The multiaddr strings passed to serve*: "bad" is not a valid multiaddr.
Addrs == {"a", "bad"}

\* Mutant of AddrParses: every string is taken as a valid multiaddr.
AddrParses_Always(smaddr) == TRUE

\* ma.NewMultiaddr(smaddr) succeeds.
AddrParses(smaddr) == smaddr # "bad"

\* ml.Multiaddr().String() of the listener bound for smaddr; "" is <<>>.
BoundAddr(smaddr) == <<"bound", smaddr>>

\* Mutant of ServeConfigItems: the gateway addresses are served first.
ServeConfigItems_GatewayFirst(c) ==
  [i \in 1..Len(c.Gateway) |->
     [kind |-> "gateway", addr |-> c.Gateway[i], writable |-> FALSE]]
  \o [i \in 1..Len(c.API) |->
        [kind |-> "api", addr |-> c.API[i], writable |-> FALSE]]

\* The serve*Multiaddr calls of ServeConfig, in order: every address of
\* cfg.Addresses.API, then every address of cfg.Addresses.Gateway with
\* writable = false.
ServeConfigItems(c) ==
  [i \in 1..Len(c.API) |->
     [kind |-> "api", addr |-> c.API[i], writable |-> FALSE]]
  \o [i \in 1..Len(c.Gateway) |->
        [kind |-> "gateway", addr |-> c.Gateway[i], writable |-> FALSE]]

\* Mutant of CanLockListeners: muListeners excludes nobody.
CanLockListeners_Always(mu) == TRUE

\* n.muListeners.Lock() returns only while no thread holds the mutex.
CanLockListeners(mu) == mu = 0

\* Mutant of ServeErrorResult: the serving task's error reaches the caller.
ServeErrorResult_Propagates(ret, failed) ==
  IF failed THEN [addr |-> <<>>, err |-> <<"serve error">>] ELSE ret

\* What the caller of serve* has or will have as result once its serving
\* task ended, with an error (failed) or without: the task only logs.
ServeErrorResult(ret, failed) == ret

\* fmt.Errorf("cannot serve `%s`: %s", maddr, err.Error())
ServeConfigError(maddr, err) == <<"cannot serve", maddr>> \o err

\* The configurations Repo.Config() can return to ServeConfig.
ServeConfigs ==
  [API : SeqsUpTo(Addrs, MaxApi), Gateway : SeqsUpTo(Addrs, MaxGateway)]

\* Mutant of ListenersOnFailure: the failing call unregisters what its
\* thread registered before.
ListenersOnFailure_RolledBack(ls, opened, c) ==
  SelectSeq(ls, LAMBDA id : opened[id].caller # c)

\* n.listeners when serve*Multiaddr or ServeConfig returns an error: no
\* failure path touches it.
ListenersOnFailure(ls, opened, c) == ls

\* Mutant of ListenerClosed: the loop of Close closes a listener twice.
ListenerClosed_Twice(l, underLock) ==
  [l EXCEPT !.closes = @ + 2,
            !.unlockedCloses = IF underLock THEN @ ELSE @ + 2]

\* l.Close() in the loop of Close, with muListeners held (underLock) or not.
ListenerClosed(l, underLock) ==
  [l EXCEPT !.closes = @ + 1,
            !.unlockedCloses = IF underLock THEN @ ELSE @ + 1]

InitServe ==
  /\ persisted = [MDNS |-> FALSE, API |-> <<>>]
  /\ plugins = FALSE
  /\ MainIdle
  /\ ConcIdle
  /\ ComposeIdle
  /\ PlugIdle
  /\ BridgeIdle
  /\ vcfg = [API |-> <<>>, Gateway |-> <<>>]
  /\ \E locked \in BOOLEAN :
       vmdns = [locked |-> locked,
                service |-> IF locked THEN "created" ELSE "nil",
                unlocks |-> 0]
  /\ vlisteners = <<>>
  /\ vmu = 0
  /\ vopened = <<>>
  /\ vpc = [c \in Servers |-> "idle"]
  /\ vmode = [c \in Servers |-> "none"]
  /\ vitems = [c \in Servers |-> <<>>]
  /\ vidx = [c \in Servers |-> 0]
  /\ vml = [c \in Servers |-> 0]
  /\ vsnap = [c \in Servers |-> <<>>]
  /\ vouts = [c \in Servers |-> <<>>]
  /\ vret = [c \in Servers |-> NoServeReturn]
  /\ kpc = "idle"
  /\ ksnap = <<>>
  /\ kidx = 0
  /\ ktrace = <<>>
  /\ kret = "pending"

closeVars == <<kpc, ksnap, kidx, ktrace, kret>>

\* A thread calls ServeAPIMultiaddr(smaddr) or
\* ServeGatewayMultiaddr(smaddr, true).
ServeCall(c) ==
  /\ vpc[c] = "idle"
  /\ \E kind \in {"api", "gateway"}, smaddr \in Addrs :
       vitems' = [vitems EXCEPT ![c] =
                    <<[kind |-> kind, addr |-> smaddr,
                       writable |-> kind = "gateway"]>>]
  /\ vmode' = [vmode EXCEPT ![c] = "single"]
  /\ vidx' = [vidx EXCEPT ![c] = 1]
  /\ vpc' = [vpc EXCEPT ![c] = "listen"]
  /\ UNCHANGED <<outsideServe, vcfg, vmdns, vlisteners, vmu, vopened,
                 vml, vsnap, vouts, vret, closeVars>>

\* A thread calls ServeConfig: cfg, err := Repo.Config(), then the loops
\* over cfg.Addresses.API and cfg.Addresses.Gateway.
ServeConfigCall(c) ==
  /\ vpc[c] = "idle"
  /\ vmode' = [vmode EXCEPT ![c] = "config"]
  /\ \E ok \in BOOLEAN, read \in ServeConfigs :
       IF ~ok
         THEN /\ vret' = [vret EXCEPT ![c] =
                            [addr |-> <<>>, err |-> <<"unable to get config">>]]
              /\ vpc' = [vpc EXCEPT ![c] = "done"]
              /\ UNCHANGED <<vcfg, vitems, vidx>>
       ELSE IF ServeConfigItems(read) = <<>>
         THEN /\ vcfg' = read
              /\ vret' = [vret EXCEPT ![c] = [addr |-> <<>>, err |-> NilError]]
              /\ vpc' = [vpc EXCEPT ![c] = "done"]
              /\ UNCHANGED <<vitems, vidx>>
       ELSE /\ vcfg' = read
            /\ vitems' = [vitems EXCEPT ![c] = ServeConfigItems(read)]
            /\ vidx' = [vidx EXCEPT ![c] = 1]
            /\ vpc' = [vpc EXCEPT ![c] = "listen"]
            /\ UNCHANGED vret
  /\ UNCHANGED <<outsideServe, vmdns, vlisteners, vmu, vopened,
                 vml, vsnap, vouts, closeVars>>

\* serve*Multiaddr returns ("", err); ServeConfig returns the error wrapped
\* with the address at once.
ServeItemFails(c, err) ==
  /\ vouts' = [vouts EXCEPT ![c] = Append(@, [addr |-> <<>>, err |-> err])]
  /\ vret' = [vret EXCEPT ![c] =
                IF vmode[c] = "single"
                  THEN [addr |-> <<>>, err |-> err]
                  ELSE [addr |-> <<>>,
                        err |-> ServeConfigError(vitems[c][vidx[c]].addr, err)]]
  /\ vpc' = [vpc EXCEPT ![c] = "done"]
  /\ vlisteners' = ListenersOnFailure(vlisteners, vopened, c)

\* maddr, err := ma.NewMultiaddr(smaddr); ml, err := manet.Listen(maddr)
ServeListen(c) ==
  /\ vpc[c] = "listen"
  /\ LET item == vitems[c][vidx[c]] IN
       IF ~AddrParses(item.addr)
         THEN /\ ServeItemFails(c, <<"parse">>)
              /\ UNCHANGED <<vopened, vml>>
         ELSE \E ok \in BOOLEAN :
                IF ok
                  THEN /\ vopened' = Append(vopened,
                                       [caller |-> c, item |-> vidx[c],
                                        kind |-> item.kind, addr |-> item.addr,
                                        writable |-> item.writable,
                                        closes |-> 0, unlockedCloses |-> 0,
                                        task |-> "none"])
                       /\ vml' = [vml EXCEPT ![c] = Len(vopened) + 1]
                       /\ vpc' = [vpc EXCEPT ![c] = "lock"]
                       /\ UNCHANGED <<vouts, vret, vlisteners>>
                  ELSE /\ ServeItemFails(c, <<"listen">>)
                       /\ UNCHANGED <<vopened, vml>>
  /\ UNCHANGED <<outsideServe, vcfg, vmdns, vmu, vmode, vitems, vidx, vsnap,
                 closeVars>>

\* n.muListeners.Lock(), and the read of n.listeners by append.
ServeLock(c) ==
  /\ vpc[c] = "lock"
  /\ CanLockListeners(vmu)
  /\ vmu' = c
  /\ vsnap' = [vsnap EXCEPT ![c] = vlisteners]
  /\ vpc' = [vpc EXCEPT ![c] = "append"]
  /\ UNCHANGED <<outsideServe, vcfg, vmdns, vlisteners, vopened, vmode,
                 vitems, vidx, vml, vouts, vret, closeVars>>

\* n.listeners = append(n.listeners, ml); n.muListeners.Unlock()
ServeAppend(c) ==
  /\ vpc[c] = "append"
  /\ vlisteners' = Append(vsnap[c], vml[c])
  /\ vsnap' = [vsnap EXCEPT ![c] = <<>>]
  /\ vmu' = 0
  /\ vpc' = [vpc EXCEPT ![c] = "return"]
  /\ UNCHANGED <<outsideServe, vcfg, vmdns, vopened, vmode, vitems,
                 vidx, vml, vouts, vret, closeVars>>

\* go func(l net.Listener) { ... }(manet.NetListener(ml)) starts the serving
\* task, then return ml.Multiaddr().String(), nil; in ServeConfig the loop
\* goes on with the next address, and after the last one ServeConfig
\* returns nil.
ServeReturn(c) ==
  /\ vpc[c] = "return"
  /\ vopened' = [vopened EXCEPT ![vml[c]].task = "running"]
  /\ LET out == [addr |-> BoundAddr(vitems[c][vidx[c]].addr),
                 err |-> NilError]
     IN /\ vouts' = [vouts EXCEPT ![c] = Append(@, out)]
        /\ IF vmode[c] = "single"
             THEN /\ vret' = [vret EXCEPT ![c] = out]
                  /\ vpc' = [vpc EXCEPT ![c] = "done"]
                  /\ UNCHANGED vidx
           ELSE IF vidx[c] = Len(vitems[c])
             THEN /\ vret' = [vret EXCEPT ![c] =
                                [addr |-> <<>>, err |-> NilError]]
                  /\ vpc' = [vpc EXCEPT ![c] = "done"]
                  /\ UNCHANGED vidx
           ELSE /\ vidx' = [vidx EXCEPT ![c] = @ + 1]
                /\ vpc' = [vpc EXCEPT ![c] = "listen"]
                /\ UNCHANGED vret
  /\ UNCHANGED <<outsideServe, vcfg, vmdns, vlisteners, vmu, vmode, vitems,
                 vml, vsnap, closeVars>>

\* The serving task of listener id ends: ServeCoreHTTP / ServeGateway
\* returned, with an error (failed), which the task only logs, or without.
ServeTaskEnds(id) ==
  /\ vopened[id].task = "running"
  /\ \E failed \in BOOLEAN :
       vret' = [vret EXCEPT ![vopened[id].caller] = ServeErrorResult(@, failed)]
  /\ vopened' = [vopened EXCEPT ![id].task = "ended"]
  /\ UNCHANGED <<outsideServe, vcfg, vmdns, vlisteners, vmu, vpc, vmode,
                 vitems, vidx, vml, vsnap, vouts, closeVars>>

\* Node.Close is called, while serve* calls may be running.
CloseCall ==
  /\ kpc = "idle"
  /\ kpc' = "lock"
  /\ UNCHANGED <<outsideServe, vcfg, vmdns, vlisteners, vmu, vopened,
                 vpc, vmode, vitems, vidx, vml, vsnap, vouts, vret, ksnap,
                 kidx, ktrace, kret>>

\* n.muListeners.Lock(); the range expression n.listeners is evaluated.
CloseLock ==
  /\ kpc = "lock"
  /\ CanLockListeners(vmu)
  /\ vmu' = Closer
  /\ ksnap' = vlisteners
  /\ kidx' = 1
  /\ ktrace' = Append(ktrace, "LockListeners")
  /\ kpc' = "sweep"
  /\ UNCHANGED <<outsideServe, vcfg, vmdns, vlisteners, vopened, vpc,
                 vmode, vitems, vidx, vml, vsnap, vouts, vret, kret>>

\* for _, l := range n.listeners { l.Close() }: one iteration.
CloseListener ==
  /\ kpc = "sweep"
  /\ kidx <= Len(ksnap)
  /\ vopened' = [vopened EXCEPT
                   ![ksnap[kidx]] = ListenerClosed(@, vmu = Closer)]
  /\ kidx' = kidx + 1
  /\ ktrace' = Append(ktrace, "CloseListener")
  /\ UNCHANGED <<outsideServe, vcfg, vmdns, vlisteners, vmu, vpc,
                 vmode, vitems, vidx, vml, vsnap, vouts, vret, kpc, ksnap,
                 kret>>

\* Mutant of ListenersAfterSweep: Close empties the registry.
ListenersAfterSweep_Cleared(ls) == <<>>

\* n.listeners when the loop of Close is over: Close assigns nothing to it.
ListenersAfterSweep(ls) == ls

\* n.muListeners.Unlock() after the loop.
CloseUnlock ==
  /\ kpc = "sweep"
  /\ kidx > Len(ksnap)
  /\ vlisteners' = ListenersAfterSweep(vlisteners)
  /\ vmu' = 0
  /\ ktrace' = Append(ktrace, "UnlockListeners")
  /\ kpc' = "mdns"
  /\ UNCHANGED <<outsideServe, vcfg, vmdns, vopened, vpc,
                 vmode, vitems, vidx, vml, vsnap, vouts, vret, ksnap, kidx,
                 kret>>

\* if n.mdnsLocked { n.mdnsService.Close(); n.mdnsLocker.Unlock();
\*                   n.mdnsLocked = false }
CloseMdns ==
  /\ kpc = "mdns"
  /\ IF CloseUnlocks([mdnsLocked |-> vmdns.locked])
       THEN /\ vmdns' = [locked |-> FALSE,
                         service |-> IF vmdns.service = "nil" THEN "nil"
                                     ELSE "closed",
                         unlocks |-> vmdns.unlocks + 1]
            /\ ktrace' = ktrace \o <<"MdnsClose", "MdnsUnlock">>
       ELSE UNCHANGED <<vmdns, ktrace>>
  /\ kpc' = "node"
  /\ UNCHANGED <<outsideServe, vcfg, vlisteners, vmu, vopened, vpc,
                 vmode, vitems, vidx, vml, vsnap, vouts, vret, ksnap, kidx,
                 kret>>

\* return n.ipfsMobile.Close()
CloseNode ==
  /\ kpc = "node"
  /\ \E ok \in BOOLEAN :
       kret' = IF ok THEN "nil" ELSE "ipfsMobile.Close"
  /\ ktrace' = Append(ktrace, "NodeClose")
  /\ kpc' = "done"
  /\ UNCHANGED <<outsideServe, vcfg, vmdns, vlisteners, vmu, vopened,
                 vpc, vmode, vitems, vidx, vml, vsnap, vouts, vret, ksnap,
                 kidx>>

NextServe ==
  \/ \E c \in Servers :
       \/ ServeCall(c)
       \/ ServeListen(c)
       \/ ServeLock(c)
       \/ ServeAppend(c)
       \/ ServeReturn(c)
  \/ \E id \in 1..Len(vopened) : ServeTaskEnds(id)
  \/ CloseCall
  \/ CloseLock
  \/ CloseListener
  \/ CloseUnlock
  \/ CloseMdns
  \/ CloseNode

SpecServe == InitServe /\ [][NextServe]_vars

\* One thread calling ServeConfig on the Node, and the serving tasks.
NextServeConfig ==
  \/ ServeConfigCall(1)
  \/ ServeListen(1)
  \/ ServeLock(1)
  \/ ServeAppend(1)
  \/ ServeReturn(1)
  \/ \E id \in 1..Len(vopened) : ServeTaskEnds(id)

SpecServeConfig == InitServe /\ [][NextServeConfig]_vars

\* ------------------------------------------------ Android bridge (IPFS)

outsideBridge == <<mainVars, persisted, plugins, concVars, composeVars,
                   plugVars, serveVars>>

\* Mutant of isStarted: the instance never counts as started.
isStarted_Never(n) == FALSE

\* isStarted(): return node != null
isStarted(n) == n # 0

\* Mutant of CanEnterMonitor: the methods are not synchronized.
CanEnterMonitor_Always(mon, t) == TRUE

\* A synchronized method of the instance is entered only while no other
\* thread is inside one (the monitor is reentrant for its holder).
CanEnterMonitor(mon, t) == mon \in {0, t}

InitBridge ==
  /\ persisted = [MDNS |-> FALSE, API |-> <<>>]
  /\ plugins = FALSE
  /\ MainIdle
  /\ ConcIdle
  /\ ComposeIdle
  /\ PlugIdle
  /\ ServeIdle
  /\ BridgeIdle

\* A thread calls start(), stop() or restart() and enters the monitor.
BridgeCall(t) ==
  /\ bpc[t] = "idle"
  /\ bcalls < MaxBridgeCalls
  /\ CanEnterMonitor(bmon, t)
  /\ bmon' = t
  /\ bcalls' = bcalls + 1
  /\ \E op \in {"start", "stop", "restart"} :
       /\ bpc' = [bpc EXCEPT ![t] = IF op = "restart" THEN "stop" ELSE op]
       /\ bop' = [bop EXCEPT ![t] = op]
       /\ brestart' = [brestart EXCEPT ![t] = op = "restart"]
  /\ bexc' = [bexc EXCEPT ![t] = NoException]
  /\ bgo' = [bgo EXCEPT ![t] = <<>>]
  /\ UNCHANGED <<outsideBridge, bnode, brepo, bshell, gonodes>>

\* The thread's call ends with exception exc (<<>>: it returns normally) and
\* leaves the monitor.
BridgeExit(t, exc) ==
  /\ bexc' = [bexc EXCEPT ![t] = exc]
  /\ bpc' = [bpc EXCEPT ![t] = "idle"]
  /\ brestart' = [brestart EXCEPT ![t] = FALSE]
  /\ bmon' = 0

\* start(): if (isStarted()) throw new NodeStartException("Node already
\* started").  restart() ignores a NodeStartException of start().
StartCheck(t) ==
  /\ bpc[t] = "start"
  /\ IF isStarted(bnode)
       THEN BridgeExit(t, IF brestart[t] THEN <<>>
                          ELSE <<"NodeStartException", "Node already started">>)
       ELSE /\ bpc' = [bpc EXCEPT ![t] = "starting"]
            /\ UNCHANGED <<bmon, brestart, bexc>>
  /\ UNCHANGED <<outsideBridge, bop, bgo, bnode, brepo, bshell, gonodes,
                 bcalls>>

\* The exception a failing start() ends with: NodeStartException("Node start
\* failed"), unless the log write in the catch block throws an IOException,
\* which the outer catch swallows; restart() ignores the exception.
StartFailure(t, swallowed) ==
  IF swallowed \/ brestart[t] THEN <<>>
  ELSE <<"NodeStartException", "Node start failed">>

\* The rest of start(): the log file is opened, the repo is opened if
\* closed, node = Core.newNode(repo, nodeConfig), node.serveUnixSocketAPI,
\* node.serveConfig, shell = Core.newUDSShell.  `failure` is the first step
\* that throws ("ok": none).
StartBody(t) ==
  /\ bpc[t] = "starting"
  /\ \E failure \in {"log", "openRepo", "newNode", "serveUnixSocketAPI",
                     "serveConfig", "newUDSShell", "ok"},
        swallowed \in BOOLEAN :
       /\ failure \in {"log", "ok"} => ~swallowed
       /\ failure = "openRepo" => brepo = "null"
       /\ brepo' = IF failure \in {"log", "openRepo"} THEN brepo ELSE "open"
       /\ IF failure \in {"log", "openRepo", "newNode"}
            THEN UNCHANGED <<bnode, gonodes>>
            ELSE /\ gonodes' = Append(gonodes, [live |-> TRUE, closes |-> 0])
                 /\ bnode' = Len(gonodes) + 1
       /\ bshell' = IF failure = "ok" THEN Len(gonodes) + 1 ELSE bshell
       /\ bgo' = [bgo EXCEPT ![t] = @ \o
                    (IF failure # "log" /\ brepo = "null"
                       THEN <<"openRepo">> ELSE <<>>) \o
                    CASE failure \in {"log", "openRepo"} -> <<>>
                      [] failure = "newNode" -> <<"newNode">>
                      [] failure = "serveUnixSocketAPI" ->
                           <<"newNode", "serveUnixSocketAPI">>
                      [] failure = "serveConfig" ->
                           <<"newNode", "serveUnixSocketAPI", "serveConfig">>
                      [] OTHER ->
                           <<"newNode", "serveUnixSocketAPI", "serveConfig",
                             "newUDSShell">>]
       /\ BridgeExit(t, IF failure \in {"log", "ok"} THEN <<>>
                        ELSE StartFailure(t, swallowed))
  /\ UNCHANGED <<outsideBridge, bop, bcalls>>

\* stop(): if (!isStarted()) throw new NodeStopException("Node not started
\* yet").
StopCheck(t) ==
  /\ bpc[t] = "stop"
  /\ IF ~isStarted(bnode)
       THEN BridgeExit(t, <<"NodeStopException", "Node not started yet">>)
       ELSE /\ bpc' = [bpc EXCEPT ![t] = "stopping"]
            /\ UNCHANGED <<bmon, brestart, bexc>>
  /\ UNCHANGED <<outsideBridge, bop, bgo, bnode, brepo, bshell, gonodes,
                 bcalls>>

\* The rest of stop(): node.close(); node = null; repo = null.  When
\* node.close() throws, the two assignments are skipped and stop() throws
\* NodeStopException("Node stop failed").  After a stop() that returned,
\* restart() goes on with start().
StopBody(t) ==
  /\ bpc[t] = "stopping"
  /\ gonodes' = [gonodes EXCEPT ![bnode] =
                   [live |-> FALSE, closes |-> @.closes + 1]]
  /\ bgo' = [bgo EXCEPT ![t] = Append(@, "close")]
  /\ \E ok \in BOOLEAN :
       IF ~ok
         THEN /\ BridgeExit(t, <<"NodeStopException", "Node stop failed">>)
              /\ UNCHANGED <<bnode, brepo>>
       ELSE /\ bnode' = 0
            /\ brepo' = "null"
            /\ IF brestart[t]
                 THEN /\ bpc' = [bpc EXCEPT ![t] = "start"]
                      /\ UNCHANGED <<bmon, brestart, bexc>>
                 ELSE BridgeExit(t, <<>>)
  /\ UNCHANGED <<outsideBridge, bop, bshell, bcalls>>

\* What newRequest(command) does: it throws ShellRequestException when
\* !isStarted(), else it calls this.shell.newRequest(command), which on a
\* null shell is a NullPointerException.
newRequest(n, sh) ==
  IF ~isStarted(n)
    THEN <<"ShellRequestException", "Shell request failed: node isn't started">>
  ELSE IF sh = 0 THEN <<"NullPointerException">>
  ELSE <<>>

\* A thread calls newRequest(command): the synchronized method is entered,
\* run and left in one step.
NewRequestCall(t) ==
  /\ bpc[t] = "idle"
  /\ bcalls < MaxBridgeCalls
  /\ CanEnterMonitor(bmon, t)
  /\ bcalls' = bcalls + 1
  /\ bop' = [bop EXCEPT ![t] = "newRequest"]
  /\ bexc' = [bexc EXCEPT ![t] = newRequest(bnode, bshell)]
  /\ bgo' = [bgo EXCEPT ![t] =
               IF newRequest(bnode, bshell) = <<>> THEN <<"shell.newRequest">>
               ELSE <<>>]
  /\ UNCHANGED <<outsideBridge, bmon, bpc, brestart, bnode, brepo, bshell,
                 gonodes>>

NextBridge ==
  \E t \in BridgeThreads :
    \/ BridgeCall(t)
    \/ StartCheck(t)
    \/ StartBody(t)
    \/ StopCheck(t)
    \/ StopBody(t)
    \/ NewRequestCall(t)

SpecBridge == InitBridge /\ [][NextBridge]_vars

\* =================================================================== claims

Range(q) == {q[i] : i \in 1..Len(q)}

\* NewNode has returned an error, or the Node it returned has been closed.
RunOver == pc \in {"failed", "closed"}

\* NewNode has executed the `if cfg.Discovery.MDNS.Enabled && ...` statement.
PastLockStep ==
  \/ pc \in {"disable", "construct", "enable", "ifaces", "start", "bootstrap",
             "serving", "closed", "closedAgain"}
  \/ pc = "failed" /\ errAt # "plugins"

\* NewNode has built the IpfsConfig.
PastDetect == PastLockStep \/ pc \in {"readcfg", "lock", "panic"}

\* C1: for every run of NewNode followed (on success) by one Close, under any
\* injected failure, the number of Unlock calls equals the number of Lock
\* calls.  The code returns without Unlock when either ApplyPatchs fails.
C1_LockBalanced ==
  RunOver => unlockCalls = lockCalls

\* C2: if the lock was acquired and ipfs_mobile.NewNode fails, NewNode
\* releases the lock exactly once before returning (Unlock is its last
\* locker/patch/node event), returns the failure and returns no Node; without
\* the lock the same failure calls Unlock not at all.
C2_ConstructFailureReleasesLock ==
  (pc = "failed" /\ errAt = "construct") =>
    /\ result = "err"
    /\ node = NoNode
    /\ ipfsNode = "none"
    /\ unlockCalls = lockCalls
    /\ mdnsLocked => /\ unlockCalls = 1
                     /\ trace # <<>>
                     /\ trace[Len(trace)] = "Unlock"
    /\ ~mdnsLocked => unlockCalls = 0

C2_Witness ==
  /\ pc = "failed"
  /\ errAt = "construct"
  /\ mdnsLocked
  /\ lockCalls = 1
  /\ unlockCalls = 1

\* C3: if the lock was acquired and a post-construction discovery step fails
\* (the re-enable patch, or the service start), NewNode releases the lock and
\* returns an error instead of a Node.  The code does not release it when the
\* re-enable patch fails.
C3_PostConstructFailureReleasesLock ==
  (pc = "failed" /\ errAt \in {"enable", "start"}) =>
    /\ result = "err"
    /\ node = NoNode
    /\ unlockCalls = lockCalls

\* C4: the lock is acquired iff discovery is enabled in the configuration
\* read at start and a locker driver is supplied; when either is false the
\* lock is never acquired, the persisted configuration is never patched (no
\* patch step is entered and it stays as read), no discovery service is
\* created, and Close never calls Unlock.
C4_LockIffEnabledAndLocker ==
  /\ lockCalls \in {0, 1}
  /\ PastLockStep => ((lockCalls = 1) <=> (cfg.MDNS /\ config.mdnsLockerDriver))
  /\ (run > 0 /\ ~(cfg.MDNS /\ config.mdnsLockerDriver)) =>
       /\ lockCalls = 0
       /\ unlockCalls = 0
       /\ ~mdnsLocked
       /\ pc \notin {"disable", "enable", "ifaces", "start"}
       /\ persisted = cfg
       /\ Range(trace) \subseteq {"Construct", "NodeClose"}
       /\ mdnsService = "nil"
       /\ node.live => (~node.mdnsLocked /\ ~node.mdnsService)

C4_Witness ==
  /\ pc = "closed"
  /\ config.mdnsLockerDriver
  /\ ~cfg.MDNS
  /\ lockCalls = 0
  /\ unlockCalls = 0
  /\ trace = <<"Construct", "NodeClose">>

FullLifecycle ==
  <<"Lock", "PatchDisable", "Construct", "PatchEnable", "MdnsStart",
    "MdnsClose", "Unlock", "NodeClose">>

NoStartLifecycle ==
  <<"Lock", "PatchDisable", "Construct", "PatchEnable",
    "MdnsClose", "Unlock", "NodeClose">>

\* C5 as stated: every successful lifecycle that uses the lock goes through
\* lock, disable, construct, re-enable, service start, and on Close service
\* close, unlock.
C5_EveryLifecycleStartsService ==
  (pc = "closed" /\ lockCalls > 0) => trace = FullLifecycle

\* C5 amended: every successful lifecycle that uses the lock goes through
\* lock, disable, construct, re-enable, service start (when at least one
\* multicast interface was found; with none the start is skipped), and on
\* Close service close then unlock; the node is never built while the
\* persisted configuration has discovery enabled, and the service is never
\* started without the lock held.
C5_LifecycleOrder ==
  /\ (pc = "closed" /\ lockCalls > 0) =>
       trace = IF ifaces > 0 THEN FullLifecycle ELSE NoStartLifecycle
  /\ (pc = "serving" /\ lockCalls > 0) =>
       trace = IF ifaces > 0 THEN SubSeq(FullLifecycle, 1, 5)
                             ELSE SubSeq(NoStartLifecycle, 1, 4)
  /\ (lockCalls > 0 /\ ipfsNode # "none") => ~builtWithMdns
  /\ mdnsService = "started" => (held > 0 /\ lockCalls = 1 /\ unlockCalls = 0)

C5_Witness ==
  /\ pc = "closed"
  /\ trace = FullLifecycle
  /\ ~builtWithMdns
  /\ persisted.MDNS

\* C6: with discovery enabled, the lock acquired and zero multicast
\* interfaces found, NewNode still succeeds, mdnsService.Start is never
\* called, and the lock is released exactly once, by the subsequent Close.
C6_ZeroInterfaces ==
  ifaces = 0 =>
    /\ pc \in {"bootstrap", "serving", "closed", "closedAgain"}
    /\ lockCalls = 1
    /\ "MdnsStart" \notin Range(trace)
    /\ mdnsService \in {"created", "closed"}
    /\ pc \in {"bootstrap", "serving"} => (unlockCalls = 0 /\ held > 0)
    /\ pc \in {"serving", "closed"} => (result = "ok" /\ node.live)
    /\ pc = "closed" => (unlockCalls = 1 /\ mdnsService = "closed")

C6_Witness ==
  /\ pc = "closed"
  /\ ifaces = 0
  /\ result = "ok"
  /\ lockCalls = 1
  /\ unlockCalls = 1
  /\ "MdnsStart" \notin Range(trace)

\* C7: a Bootstrap failure never fails NewNode: when all earlier steps
\* succeeded NewNode returns a Node and no error whatever Bootstrap returned,
\* and a held lock stays held.
C7_BootstrapFailureNotFatal ==
  /\ errAt # "bootstrap"
  /\ pc \in {"serving", "closed"} => (result = "ok" /\ node.live)
  /\ bootstrapErr =>
       /\ pc \in {"serving", "closed", "closedAgain"}
       /\ pc = "serving" =>
            /\ node.mdnsLocked = mdnsLocked
            /\ ipfsNode = "live"
            /\ mdnsLocked => (unlockCalls = 0 /\ lockCalls = 1 /\ held > 0)

C7_Witness ==
  /\ pc = "serving"
  /\ bootstrapErr
  /\ result = "ok"
  /\ node.live
  /\ node.mdnsLocked
  /\ held > 0
  /\ unlockCalls = 0

\* C8: feature selection depends only on the constrained classification.
\* Constrained (InterfaceAddrs fails, or Android): SimpleHostOption and
\* pubsub=false, ipnsps=false, dht=false, dhtclient=true.  Unconstrained:
\* pubsub=true, ipnsps=true and the library's default host constructor.
\* Without a radio driver the start does not fail for it and the options
\* handed to host construction hold no proximity transport.
C8_FeatureSelection ==
  /\ PastDetect => (networkLimited <=> (ifaceAddrsErr \/ isAndroid))
  /\ (PastDetect /\ networkLimited) =>
       /\ ipfscfg.HostOption = "SimpleHostOption"
       /\ ipfscfg.ExtraOpts = [pubsub |-> FALSE, ipnsps |-> FALSE,
                               dht |-> FALSE, dhtclient |-> TRUE]
  /\ (PastDetect /\ ~networkLimited) =>
       /\ ipfscfg.HostOption \in {"nil", "DefaultHostOption"}
       /\ ipfscfg.ExtraOpts = [pubsub |-> TRUE, ipnsps |-> TRUE]
  /\ ipfsNode # "none" =>
       hostBuild.constructor = IF networkLimited THEN "SimpleHostOption"
                                                 ELSE "DefaultHostOption"
  /\ (run > 0 /\ ~config.bleDriver /\ ~bleSupported) =>
       /\ bleOpt = "nil"
       /\ ipfsNode # "none" => "BLETransport" \notin Range(hostBuild.options)
       /\ result = "err" =>
            errAt \in {"plugins", "disable", "construct", "enable", "ifaces", "start"}

C8_Witness ==
  /\ pc = "serving"
  /\ result = "ok"
  /\ networkLimited
  /\ ~config.bleDriver /\ ~bleSupported
  /\ hostBuild.constructor = "SimpleHostOption"
  /\ hostBuild.options = <<"library", "nil", "DisableRelay", "ForceReachabilityPrivate">>
  /\ ~ipfscfg.ExtraOpts.pubsub
  /\ ipfscfg.ExtraOpts.dhtclient

\* What the contract of the patch chain expects, stated without the loop.
IsPatch(p) == p # "nil"

NonNil(ps) == SelectSeq(ps, IsPatch)

\* Index of the first failing patch of ps, 0 when none fails.
FirstErr(ps) ==
  IF \E i \in 1..Len(ps) : PatchErr(ps[i])
    THEN CHOOSE i \in 1..Len(ps) :
           PatchErr(ps[i]) /\ \A j \in 1..(i - 1) : ~PatchErr(ps[j])
  ELSE 0

ExpectedCalls(ps) ==
  LET nn == NonNil(ps)
      k  == FirstErr(nn)
  IN IF k = 0 THEN nn ELSE SubSeq(nn, 1, k)

RECURSIVE RunAll(_, _)
RunAll(calls, c) ==
  IF calls = <<>> THEN c ELSE RunAll(Tail(calls), PatchRun(Head(calls), c))

\* C9: ChainIpfsConfigPatch runs the non-nil patches in sequence order on the
\* same value, skips nil entries, stops at the first patch that returns an
\* error and returns that error without running any later patch, and returns
\* success without touching the value when there is no non-nil entry.
C9_ChainOrderSkipStop ==
  (applied.err # "pending" /\ applied.readOK) =>
    /\ applied.calls = ExpectedCalls(patchs)
    /\ applied.mem = RunAll(ExpectedCalls(patchs), applied.before)
    /\ (applied.err = "patch") <=> (FirstErr(NonNil(patchs)) # 0)
    /\ NonNil(patchs) = <<>> =>
         /\ applied.calls = <<>>
         /\ applied.mem = applied.before
         /\ applied.err # "patch"

C9_Witness ==
  /\ applied.err = "patch"
  /\ patchs = <<"nil", "AddB", "DirtyFail">>
  /\ applied.calls = <<"AddB", "DirtyFail">>
  /\ applied.mem = [MDNS |-> ~applied.before.MDNS,
                    API |-> Append(applied.before.API, "b")]

\* C10: ApplyPatchs calls SetConfig only when the composed patch returns no
\* error; when a patch fails it returns that failure and the persisted
\* configuration is the one before the call although the earlier patches
\* were applied to the in-memory value; when reading the configuration fails
\* no patch runs and nothing is written.
C10_PersistOnlyOnSuccess ==
  applied.err # "pending" =>
    /\ (applied.sets = 1) <=> (applied.err \in {"none", "setconfig"})
    /\ applied.sets \in {0, 1}
    /\ applied.err = "patch" =>
         /\ persisted = applied.before
         /\ applied.mem = RunAll(ExpectedCalls(patchs), applied.before)
    /\ applied.err = "config" =>
         /\ ~applied.readOK
         /\ applied.calls = <<>>
         /\ persisted = applied.before
    /\ applied.err = "none" => persisted = applied.mem

C10_Witness ==
  /\ applied.err = "patch"
  /\ applied.sets = 0
  /\ Len(applied.calls) > 1
  /\ applied.mem # applied.before
  /\ persisted = applied.before

\* The persisted configuration after caller p's call ran alone on d, given
\* what the call returned: only a call that returned nil wrote its result.
AloneResult(p, d) ==
  IF cerr[p] = "none" THEN ChainIpfsConfigPatch(cchain[p], d).cfg ELSE d

\* C11: for any interleaving of two concurrent ApplyPatchs calls on the same
\* repository, the final persisted configuration is the result of running
\* the two patch chains one after the other in some order.  ApplyPatchs
\* holds no lock between Config() and SetConfig(), so an update can be lost.
C11_NoLostUpdate ==
  (\A p \in Procs : cpc[p] = "done") =>
    persisted \in {AloneResult(2, AloneResult(1, disk0)),
                   AloneResult(1, AloneResult(2, disk0))}

\* The host the base constructor built in a composed host constructor call.
BuiltHost(r) == r.baseCalls[1]

\* C12 as stated: the composed host constructor calls the base exactly once
\* with the caller's options followed by HostConfig.Options, and when the
\* base succeeds it invokes the hook (if present) exactly once with the
\* base's host and returns that same host.  A failing hook makes the
\* composed constructor return no host, so the last part does not hold.
C12_ReturnsBaseHost ==
  hres.done =>
    /\ Len(hres.baseCalls) = 1
    /\ BuiltHost(hres).options = cin.options \o cin.Options
    /\ cin.hoptOK =>
         /\ cin.ConfigFunc # "nil" => hres.hookCalls = <<BuiltHost(hres)>>
         /\ hres.host = BuiltHost(hres)

\* C12 (amended): the composed host constructor calls the base exactly once
\* with the caller's options followed by HostConfig.Options in their order;
\* when the base succeeds it invokes the hook (if present) exactly once with
\* the base's host, and returns that same host unless the hook failed.
C12_BaseOnceThenHook ==
  hres.done =>
    /\ Len(hres.baseCalls) = 1
    /\ BuiltHost(hres).options = cin.options \o cin.Options
    /\ cin.hoptOK =>
         /\ cin.ConfigFunc # "nil" => hres.hookCalls = <<BuiltHost(hres)>>
         /\ cin.ConfigFunc # "err" =>
              hres.host = BuiltHost(hres) /\ hres.err = NilError

C12_Witness ==
  /\ hres.done /\ cin.hoptOK /\ cin.ConfigFunc = "ok"
  /\ Len(cin.options) = 2 /\ Len(cin.Options) = 2
  /\ hres.host.options = <<"c1", "c2">> \o cin.Options

\* C13: with a nil hook the composed host constructor invokes no hook and
\* returns what the base returns: its host on success, its error unwrapped
\* on failure.
C13_NilHookIsBase ==
  (hres.done /\ cin.ConfigFunc = "nil") =>
    /\ hres.hookCalls = <<>>
    /\ Len(hres.baseCalls) = 1
    /\ IF cin.hoptOK
         THEN hres.host = BuiltHost(hres) /\ hres.err = NilError
         ELSE hres.host = NoHost /\ hres.err = <<"hopt">>

C13_Witness ==
  /\ hres.done /\ cin.ConfigFunc = "nil" /\ ~cin.hoptOK
  /\ hres.err = <<"hopt">>

\* C14: base success followed by a hook error returns no host and the
\* hook's error wrapped under the host-configuration message, which differs
\* from the unwrapped error of a base failure.
C14_HookErrorWrapped ==
  hres.done =>
    /\ (cin.hoptOK /\ cin.ConfigFunc = "err") =>
         /\ hres.host = NoHost
         /\ hres.err = <<"unable to apply host config", "ConfigFunc">>
    /\ ~cin.hoptOK => hres.err = <<"hopt">>

C14_Witness ==
  /\ hres.done /\ cin.hoptOK /\ cin.ConfigFunc = "err"
  /\ Head(hres.err) = "unable to apply host config"

\* C15: when the hook fails after the base constructor succeeded, the host
\* that was built is closed before the composed constructor returns.  The
\* code returns the wrapped error without closing the host.
C15_HookFailureClosesHost ==
  (hres.done /\ cin.hoptOK /\ cin.ConfigFunc = "err") => ~hres.hostOpen

\* C16: the composed routing constructor calls the base exactly once; a base
\* failure is returned unchanged and no hook runs; on base success a non-nil
\* hook runs exactly once with (host, routing); a hook error gives no routing
\* and the hook's error wrapped under the routing-configuration message; a
\* nil hook is a no-op.
C16_RoutingComposer ==
  rres.done =>
    /\ rres.baseCalls = <<"host">>
    /\ IF ~cin.roOK
         THEN /\ rres.err = <<"ro">>
              /\ rres.routing = NoRouting
              /\ rres.hookCalls = <<>>
       ELSE IF cin.RoutingFunc = "nil"
         THEN /\ rres.hookCalls = <<>>
              /\ rres.routing = [on |-> "host"]
              /\ rres.err = NilError
       ELSE /\ rres.hookCalls = << <<"host", [on |-> "host"]>> >>
            /\ IF cin.RoutingFunc = "err"
                 THEN /\ rres.routing = NoRouting
                      /\ rres.err = <<"failed to config routing", "ConfigFunc">>
                 ELSE /\ rres.routing = [on |-> "host"]
                      /\ rres.err = NilError

C16_Witness ==
  /\ rres.done /\ cin.roOK /\ cin.RoutingFunc = "err"
  /\ Len(rres.hookCalls) = 1
  /\ Head(rres.err) = "failed to config routing"

\* C17: when ipfsmobile.NewNode is given neither a HostConfig nor a
\* HostOption, the node's host is built by SimpleHostOption and not by the
\* library's default host constructor.  fillDefault has already replaced the
\* nil HostOption by DefaultHostOption when NewNode tests it for nil.
C17_AbsentHostOptionIsSimple ==
  (mres.done /\ cin.HostOption = "nil" /\ cin.HostConfigNil) =>
    BuiltHost(mres).constructor = "SimpleHostOption"

\* C18: SimpleHostOption's constructor fails with the missing-key error and
\* builds nothing when the peer store has no private key for the identity;
\* otherwise it builds the host with its base options followed by the
\* caller's options.
C18_SimpleHost ==
  sres.done =>
    IF ~cin.hasKey
      THEN /\ sres.err = <<"missing private key for node ID">>
           /\ sres.host = NoHost
           /\ sres.newCalls = <<>>
    ELSE /\ sres.newCalls =
              << <<"Identity", "Peerstore", "NoListenAddrs", "DisableRelay",
                   "ForceReachabilityPrivate", "Security(tls)",
                   "Security(noise)">> \o cin.options >>
         /\ cin.hoptOK =>
              /\ sres.err = NilError
              /\ sres.host.constructor = "SimpleHostOption"
              /\ sres.host.options = sres.newCalls[1]

C18_Witness ==
  /\ sres.done /\ ~cin.hasKey /\ sres.host = NoHost
  /\ sres.err = <<"missing private key for node ID">>

\* The loaders the finished calls returned.
ReturnedLoaders == {tret[t].lp : t \in {u \in Threads : tret[u].err = "nil"}}

\* Every thread has finished at least one call and none is running.
AllCallsDone == \A t \in Threads : tpc[t] = "done"

\* C19 as stated: after N > 1 concurrent loadPlugins calls, Initialize and
\* Inject have each run exactly once and every call returned the same
\* loader.  A call whose construction or initialization fails returns no
\* loader and leaves the cache unset, and the next call initializes again.
C19_InitializedExactlyOnce ==
  AllCallsDone =>
    /\ initRuns = 1 /\ injectRuns = 1
    /\ \A t \in Threads : tret[t] = [lp |-> pluginsInst, err |-> "nil"]

\* C19 (amended): however the calls interleave, at most one thread is
\* between Lock and return; the calls that return a loader all return the
\* same one, the cached instance; and when no construction or
\* initialization step failed, Initialize and Inject each ran exactly once
\* and every call returned that loader.
C19_OneInitializationShared ==
  /\ Cardinality({t \in Threads :
                    tpc[t] \in {"check", "new", "init", "inject"}}) <= 1
  /\ ReturnedLoaders \subseteq {pluginsInst}
  /\ \A t \in Threads : tret[t].err = "nil" => tret[t].lp # NoLoader
  /\ (AllCallsDone /\ ~anyFail) =>
       /\ newRuns = 1 /\ initRuns = 1 /\ injectRuns = 1
       /\ \A t \in Threads : tret[t] = [lp |-> pluginsInst, err |-> "nil"]

C19_Witness ==
  /\ AllCallsDone /\ ~anyFail
  /\ tpath[1] # tpath[2]
  /\ tret[1].lp = tret[2].lp /\ tret[1].lp # NoLoader
  /\ initRuns = 1 /\ injectRuns = 1

\* C20: once a loadPlugins call has succeeded, the cached instance is never
\* replaced or cleared, no loader is constructed or initialized any more,
\* and every call returning from then on returns the cached instance with
\* no error, whatever path it passed.
C20_CacheIsFinal ==
  [][pluginsInst # NoLoader =>
       /\ pluginsInst' = pluginsInst
       /\ newRuns' = newRuns /\ initRuns' = initRuns /\ injectRuns' = injectRuns
       /\ \A t \in Threads :
            (tpc[t] # "done" /\ tpc'[t] = "done") =>
              tret'[t] = [lp |-> pluginsInst, err |-> "nil"]]_vars

C20_Witness ==
  \E t \in Threads :
    /\ tpc[t] = "done"
    /\ pluginsInst # NoLoader
    /\ pluginsInst.path # PluginPath(tpath[t])
    /\ tret[t] = [lp |-> pluginsInst, err |-> "nil"]

\* Thread t returns from loadPlugins in this step.
PlugReturns(t) == tpc[t] # "done" /\ tpc'[t] = "done"

\* C21: a loadPlugins call that fails in NewPluginLoader, Initialize or
\* Inject leaves the cached loader unset and releases muPlugins; a call that
\* finds the cache unset after a failure starts again with the construction
\* of a loader, and when its Inject succeeds it caches and returns the loader
\* it built itself.
C21_FailureNotCached ==
  [][\A t \in Threads :
       /\ (PlugReturns(t) /\ tret'[t].err # "nil") =>
            /\ pluginsInst' = NoLoader
            /\ plugins' = FALSE
            /\ muPlugins' = 0
            /\ tret'[t].lp = NoLoader
       /\ (tpc[t] = "check" /\ anyFail /\ pluginsInst = NoLoader) =>
            tpc'[t] \in {"check", "new"}
       /\ (tpc[t] = "inject" /\ PlugReturns(t) /\ tret'[t].err = "nil") =>
            /\ pluginsInst' = tlp[t]
            /\ tlp[t].path = PluginPath(tpath[t])
            /\ tret'[t].lp = tlp[t]
            /\ muPlugins' = 0]_vars

C21_Witness ==
  /\ anyFail
  /\ \E t \in Threads : tret[t].err = "Initialize"
  /\ pluginsInst.id = 2
  /\ initRuns = 2
  /\ muPlugins = 0

\* The positions in n.listeners of the listeners thread c opened.
RegisteredBy(c) ==
  {i \in 1..Len(vlisteners) : vopened[vlisteners[i]].caller = c}

\* The listeners thread c opened.
OpenedBy(c) == {id \in 1..Len(vopened) : vopened[id].caller = c}

\* C22: ServeAPIMultiaddr and ServeGatewayMultiaddr return an error, register
\* no listener and start no serving task when the address does not parse or
\* the listener cannot be bound; when both succeed they return the bound
\* address with exactly one listener appended to the registry, and no
\* serving task runs for a listener that is not registered yet.
C22_ServeRegistersOrFails ==
  /\ \A id \in 1..Len(vopened) :
       vopened[id].task # "none" => id \in Range(vlisteners)
  /\ \A c \in Servers :
       (vmode[c] = "single" /\ vpc[c] = "done") =>
         LET item == vitems[c][1] IN
           /\ item.addr = "bad" => vret[c].err = <<"parse">>
           /\ IF vret[c].err # NilError
                THEN /\ vret[c].err \in {<<"parse">>, <<"listen">>}
                     /\ vret[c].addr = <<>>
                     /\ OpenedBy(c) = {}
                     /\ RegisteredBy(c) = {}
                ELSE /\ vret[c].addr = <<"bound", item.addr>>
                     /\ Cardinality(OpenedBy(c)) = 1
                     /\ Cardinality(RegisteredBy(c)) = 1
                     /\ \A id \in OpenedBy(c) :
                          /\ vopened[id].kind = item.kind
                          /\ vopened[id].task # "none"

C22_Witness ==
  \E c, d \in Servers :
    /\ vmode[c] = "single" /\ vpc[c] = "done" /\ vret[c].err = <<"listen">>
    /\ vmode[d] = "single" /\ vpc[d] = "done" /\ vret[d].err = NilError
    /\ vret[d].addr = <<"bound", "a">>
    /\ Len(vlisteners) = 1

\* Listener id's serving task ends in this step.
TaskEnds(id) ==
  /\ vopened[id].task = "running"
  /\ vopened'[id].task = "ended"

\* C23: the result of a serve* call does not depend on its serving task: the
\* call returns while the task it started is still running, and the end of
\* a serving task, with or without an error, changes neither what any call
\* returned or will return nor any other state of the Node.
C23_ServingFireAndForget ==
  [][/\ \A c \in Servers :
          (vpc[c] = "return" /\ vpc'[c] = "done" /\ vmode[c] = "single") =>
            /\ vopened'[vml[c]].task = "running"
            /\ vret'[c] = [addr |-> BoundAddr(vitems[c][1].addr),
                           err |-> NilError]
     /\ \A id \in 1..Len(vopened) :
          TaskEnds(id) =>
            /\ vret' = vret /\ vouts' = vouts /\ vpc' = vpc
            /\ vlisteners' = vlisteners /\ vmu' = vmu /\ vmdns' = vmdns
            /\ kpc' = kpc /\ kret' = kret /\ ktrace' = ktrace
            /\ \A j \in 1..Len(vopened) :
                 j # id => vopened'[j] = vopened[j]]_vars

C23_Witness ==
  \E c \in Servers :
    /\ vmode[c] = "single" /\ vpc[c] = "done"
    /\ vret[c] = [addr |-> <<"bound", "a">>, err |-> NilError]
    /\ \E id \in OpenedBy(c) : vopened[id].task = "ended"

\* The serve*Multiaddr calls ServeConfig has to make for configuration c.
ExpectedServes(c) ==
  [i \in 1..(Len(c.API) + Len(c.Gateway)) |->
     IF i <= Len(c.API)
       THEN [kind |-> "api", addr |-> c.API[i], writable |-> FALSE]
       ELSE [kind |-> "gateway", addr |-> c.Gateway[i - Len(c.API)],
             writable |-> FALSE]]

\* ServeConfig has returned to thread c after reading the configuration.
ServeConfigDone(c) ==
  /\ vmode[c] = "config" /\ vpc[c] = "done"
  /\ vret[c].err # <<"unable to get config">>

C25_FailedServeConfigKeepsListeners ==
  \A c \in Servers :
    (ServeConfigDone(c) /\ vret[c].err # NilError) =>
      /\ Cardinality(OpenedBy(c)) = Len(vouts[c]) - 1
      /\ \A id \in OpenedBy(c) :
           /\ vopened[id].closes = 0
           /\ Cardinality({i \in 1..Len(vlisteners) : vlisteners[i] = id}) = 1

C25_Witness ==
  /\ ServeConfigDone(1)
  /\ vcfg.API = <<"a", "a">>
  /\ vret[1].err = <<"cannot serve", "a", "listen">>
  /\ Len(vouts[1]) = 2
  /\ vlisteners = <<1>>
  /\ vopened[1].closes = 0

\* Close has finished its loop over the listeners and released muListeners.
SweepDone == kpc \in {"mdns", "node", "done"}

\* C26: one Node.Close calls Close exactly once on every listener that was
\* registered when it took the listener lock, be there none, one or many,
\* and holds the lock at each of these calls; it closes no other listener.
C26_CloseAllOnce ==
  /\ \A id \in 1..Len(vopened) :
       /\ vopened[id].closes <= 1
       /\ vopened[id].unlockedCloses = 0
       /\ vopened[id].closes = 1 => (kpc # "idle" /\ id \in Range(ksnap))
  /\ SweepDone =>
       /\ \A id \in Range(ksnap) : vopened[id].closes = 1
       /\ \A i \in 1..Len(ksnap) : vlisteners[i] = ksnap[i]

C26_Witness ==
  /\ SweepDone
  /\ Len(ksnap) = 2
  /\ \A id \in Range(ksnap) : vopened[id].closes = 1

\* C27: Close closes the registered listeners under the listener lock and
\* releases that lock; then, only if discovery was locked, closes the
\* discovery service and after that releases the discovery lock; then closes
\* the underlying node, whose result it returns.  The earlier steps are
\* performed also when closing the underlying node fails.
C27_CloseOrder ==
  kpc = "done" =>
    /\ ktrace =
         <<"LockListeners">>
         \o [i \in 1..Len(ksnap) |-> "CloseListener"]
         \o <<"UnlockListeners">>
         \o (IF vmdns.service # "nil" THEN <<"MdnsClose", "MdnsUnlock">>
             ELSE <<>>)
         \o <<"NodeClose">>
    /\ vmdns.service \in {"nil", "closed"}
    /\ vmdns.unlocks = IF vmdns.service = "closed" THEN 1 ELSE 0
    /\ ~vmdns.locked
    /\ kret \in {"nil", "ipfsMobile.Close"}
    /\ vmu # Closer

C27_Witness ==
  /\ kpc = "done" /\ kret = "ipfsMobile.Close"
  /\ vmdns.service = "closed" /\ vmdns.unlocks = 1
  /\ Len(ksnap) = 1
  /\ ktrace = <<"LockListeners", "CloseListener", "UnlockListeners",
                "MdnsClose", "MdnsUnlock", "NodeClose">>

\* C28: n.listeners is read and written only by the holder of the listener
\* lock, and once the concurrent serve* calls have returned the registry
\* holds exactly one entry for each call that succeeded and nothing else.
C28_RegistryUnderLock ==
  /\ \A c \in Servers : vpc[c] = "append" => vmu = c
  /\ kpc = "sweep" => vmu = Closer
  /\ (\A c \in Servers : vpc[c] = "done") =>
       /\ \A c \in Servers :
            Cardinality(RegisteredBy(c)) =
              IF vret[c].err = NilError THEN 1 ELSE 0
       /\ Len(vlisteners) =
            Cardinality({c \in Servers : vret[c].err = NilError})

C28_Witness ==
  /\ \A c \in Servers : vpc[c] = "done" /\ vret[c].err = NilError
  /\ Len(vlisteners) = MaxServers
  /\ vlisteners[1] > vlisteners[2]

\* Thread t takes a step of its call.
BridgeStep(t) == bpc'[t] # bpc[t] \/ bexc'[t] # bexc[t]

\* C29: start() on a started instance throws NodeStartException and stop()
\* on an instance that is not started throws NodeStopException; in both
\* cases nothing is called in the Go node and node, repo and shell are left
\* as they are.
C29_GuardedStartStop ==
  [][\A t \in BridgeThreads :
       /\ (bpc[t] = "start" /\ ~brestart[t] /\ bnode # 0 /\ BridgeStep(t)) =>
            /\ bexc'[t] = <<"NodeStartException", "Node already started">>
            /\ bpc'[t] = "idle"
            /\ bgo'[t] = <<>>
            /\ UNCHANGED <<bnode, brepo, bshell, gonodes>>
       /\ (bpc[t] = "stop" /\ ~brestart[t] /\ bnode = 0 /\ BridgeStep(t)) =>
            /\ bexc'[t] = <<"NodeStopException", "Node not started yet">>
            /\ bpc'[t] = "idle"
            /\ bgo'[t] = <<>>
            /\ UNCHANGED <<bnode, brepo, bshell, gonodes>>]_vars

C29_Witness ==
  \E t \in BridgeThreads :
    /\ bexc[t] = <<"NodeStartException", "Node already started">>
    /\ bgo[t] = <<>>
    /\ bnode # 0 /\ gonodes[bnode].live

\* C30: for one bridge instance and any interleaving of start(), stop() and
\* restart() calls of several threads, at most one Go node is live at any
\* time and Close is called at most once on every node Core.newNode
\* returned.  A stop() whose node.close() throws keeps the node in the field
\* node, and the next stop() calls close() on it again.
C30_OneLiveNodeClosedOnce ==
  /\ Cardinality({i \in 1..Len(gonodes) : gonodes[i].live}) <= 1
  /\ \A i \in 1..Len(gonodes) : gonodes[i].closes <= 1

\* C31: a failure to read the configuration during node start comes back to
\* the caller of NewNode as an error.  The code calls panic(err) when
\* r.mr.Config() fails, so the call does not return at all.
C31_ConfigErrorsReturned ==
  errAt = "config" => result = "err"

\* C34: whenever NewNode has returned, with a Node or with any error, the
\* persisted Discovery.MDNS.Enabled equals the value NewNode read before it
\* took the lock.  The code re-enables mDNS only after ipfs_mobile.NewNode
\* succeeded: when the construction fails, or the re-enabling ApplyPatchs
\* fails, NewNode returns with the flag still disabled.
C34_MdnsFlagRestored ==
  pc \in {"failed", "serving"} => persisted.MDNS = cfg.MDNS

\* C35: whenever NewNode returns an error after ipfs_mobile.NewNode built the
\* node (the re-enabling patch, the interface enumeration or the start of the
\* mDNS service failed), the built node has been closed.  The three return
\* statements do not call mnode.Close().
C35_FailedStartLeavesNoLiveNode ==
  (pc = "failed" /\ errAt \in {"enable", "ifaces", "start"}) =>
    ipfsNode # "live"

\* C39: a second Close on the same Node neither releases the DiscoveryLock
\* nor closes the discovery service again, because the first Close cleared
\* n.mdnsLocked: over both Close calls Unlock is called at most once.
C39_SecondCloseDoesNotUnlock ==
  pc \in {"closed", "closedAgain"} =>
    /\ Cardinality({i \in 1..Len(trace) : trace[i] = "Unlock"}) <= 1
    /\ Cardinality({i \in 1..Len(trace) : trace[i] = "MdnsClose"}) <= 1
    /\ unlockCalls <= 1
    /\ ~node.mdnsLocked

C39_Witness ==
  /\ pc = "closedAgain"
  /\ lockCalls = 1
  /\ unlockCalls = 1
  /\ Cardinality({i \in 1..Len(trace) : trace[i] = "NodeClose"}) = 2
  /\ Cardinality({i \in 1..Len(trace) : trace[i] = "Unlock"}) = 1

\* ------------------------------------- NewNode with a blocking DiscoveryLock

\* mdnsLockerDriver is a sync.Locker; when it is a mutex, Lock() returns only
\* while no earlier acquisition is outstanding.
LockerAvailable(h) == h = 0

\* The `if cfg.Discovery.MDNS.Enabled && ...` statement with a locker whose
\* Lock() blocks: the caller waits at Lock() until the mutex is free.
LockMdnsBlocking ==
  /\ ShouldLockMdns(cfg, config) => LockerAvailable(held)
  /\ LockMdns

\* The steps a thread inside NewNode takes on its own.
NewNodeSteps ==
  \/ LoadPluginsStep
  \/ SelectBle
  \/ DetectNetwork
  \/ ReadConfig
  \/ LockMdnsBlocking
  \/ DisableMdns
  \/ ConstructNode
  \/ EnableMdns
  \/ GetMulticastInterfaces
  \/ StartMdns
  \/ Bootstrap

NextBlocking ==
  \/ NewNodeCall
  \/ NewNodeSteps
  \/ Serve
  \/ Close
  \/ CloseAgain

\* A thread inside NewNode keeps running, and every Node NewNode returned is
\* eventually closed.
SpecBlocking ==
  /\ Init
  /\ [][NextBlocking]_vars
  /\ WF_vars(NewNodeSteps)
  /\ WF_vars(Close)

\* C40: with a blocking DiscoveryLock, a NewNode call that reaches Lock()
\* eventually gets past it, provided every Node returned earlier is
\* eventually closed.  A NewNode that fails in one of the two ApplyPatchs
\* calls returns with the mutex held and no Node to release it, and the next
\* NewNode waits at Lock() forever.
C40_WaiterEventuallyAcquires ==
  (pc = "lock" /\ ShouldLockMdns(cfg, config)) ~> (pc # "lock")

\* C33: Close leaves the contents of n.listeners as they are: once its loop
\* is over the registry still begins with exactly the listeners the loop
\* closed, each closed once, and a serve* call made later appends to them.
C33_CloseKeepsRegistry ==
  kpc \in {"mdns", "node", "done"} =>
    /\ Len(vlisteners) >= Len(ksnap)
    /\ SubSeq(vlisteners, 1, Len(ksnap)) = ksnap
    /\ \A i \in 1..Len(ksnap) : vopened[ksnap[i]].closes = 1

C33_Witness ==
  /\ kpc = "done"
  /\ Len(ksnap) = 1
  /\ Len(vlisteners) = 2
  /\ vlisteners[1] = ksnap[1]
  /\ vopened[vlisteners[1]].closes = 1
  /\ vopened[vlisteners[2]].closes = 0
  /\ \A c \in Servers : vpc[c] \in {"idle", "done"}

\* C36: for every interleaving of serve* calls with one Close on the same
\* Node, once Close and all the serve* calls have returned every registered
\* listener is closed.  A serve* call that appends its listener after the
\* loop of Close has read n.listeners (whether it opened the listener before
\* Close was called or after) leaves it registered and open.
C36_NoListenerLeftOpen ==
  (kpc = "done" /\ \A c \in Servers : vpc[c] \in {"idle", "done"}) =>
    \A i \in 1..Len(vlisteners) : vopened[vlisteners[i]].closes >= 1

\* Thread t is the only thread that has called the instance so far, so the
\* fields are as t's last call left them.
OnlyCaller(t) == \A u \in BridgeThreads \ {t} : bop[u] = "none"

\* Thread t's last call was `op` and it ended with exc (<<>>: it returned).
Ended(t, op, exc) == bop[t] = op /\ bpc[t] = "idle" /\ bexc[t] = exc

\* C32: whenever restart() returns without throwing, the instance is
\* started: isStarted() is true and the node in the field node is a live one
\* that has not been closed.  restart() ignores the NodeStartException of its
\* start(), so it returns normally after a start() that failed.
C32_RestartLeavesStarted ==
  \A t \in BridgeThreads :
    (Ended(t, "restart", <<>>) /\ OnlyCaller(t)) =>
      /\ isStarted(bnode)
      /\ gonodes[bnode].live
      /\ gonodes[bnode].closes = 0

\* C37: whenever start() throws NodeStartException("Node start failed"),
\* isStarted() is false afterwards and no Go node is left live.  start()
\* assigns the field node as soon as Core.newNode returns and neither closes
\* the node nor resets the field when a later step throws.
C37_FailedStartNotStarted ==
  \A t \in BridgeThreads :
    (Ended(t, "start", <<"NodeStartException", "Node start failed">>)
       /\ OnlyCaller(t)) =>
      /\ ~isStarted(bnode)
      /\ \A i \in 1..Len(gonodes) : ~gonodes[i].live

\* C38: whenever start() returns without throwing, node and shell are
\* non-null and newRequest does not fail; and newRequest on an instance whose
\* isStarted() is false throws ShellRequestException.  start() returns
\* normally when the log file cannot be opened or written (the outer catch
\* swallows the IOException), with nothing started or with the node created
\* and no shell.
C38_StartedMeansUsable ==
  \A t \in BridgeThreads :
    /\ (Ended(t, "start", <<>>) /\ OnlyCaller(t)) =>
         /\ isStarted(bnode)
         /\ bshell # 0
         /\ newRequest(bnode, bshell) = <<>>
    /\ (bop[t] = "newRequest" /\ OnlyCaller(t) /\ ~isStarted(bnode)) =>
         bexc[t] = <<"ShellRequestException",
                     "Shell request failed: node isn't started">>

====
